---------------------------- MODULE Spec2Model ----------------------------
(***************************************************************************)
(* Model of the live data ingestion and alerting subsystem of the trading  *)
(* cockpit: the price-alert engine (workers/alert_manager.py) and the      *)
(* session manager with its polling loop (workers/shioaji_worker.py), as   *)
(* wired together by main.py and the HTTP routes.                          *)
(***************************************************************************)
EXTENDS Integers, Sequences, FiniteSets, TLC

(***************************************************************************)
(* Bounds of the model.                                                    *)
(***************************************************************************)
MaxAlerts == 2          \* alert rows ever inserted by add_alert in one run
MaxPrice == 3           \* quote prices range over 0..MaxPrice
TargetPrice == 2        \* the target price of the alerts that are added
PreloadedAlerts == 50   \* rows already stored when the process starts (SpecQueue)
MaxFetchPrice == 2      \* prices 1..MaxFetchPrice at the exchange
MaxSnapshots == 3       \* snapshot dicts ever created by fetch_snapshots
MaxDays == 2            \* days the clock runs over
MaxThreads == 2         \* loop threads ever created by start() in one run
RetryCap == 12          \* reconnect() is not called with _retry_count at RetryCap
MaxObtains == 2         \* api.snapshots calls that return, over both threads (SpecAccess)
MaxTicks == 4           \* iterations of the polling loop (SpecTick)
TickSnapshots == 8      \* snapshot dicts ever created by these calls (SpecTick)
MaxFirings == 2         \* bodies begun in a day by the firings of SpecHook

Symbols == {"S1", "S2"}
AlertTypes == {"above", "below"}
Prices == 0..MaxPrice
Targets == {TargetPrice}

\* A quote map {stock_id: {price, ...}}: some symbols have a quote, others none.
QuotesOf(syms) == UNION {[S -> Prices] : S \in SUBSET syms}
Quotes == QuotesOf(Symbols)

\* The two threads that run check_alerts: the polling thread (post-fetch hook)
\* and the event-loop thread that serves the HTTP handlers.
Checkers == {"poll", "http"}

VARIABLES
    \* ---- alert engine ----
    alerts,            \* table stock_alerts: id -> row
    nextId,            \* AUTOINCREMENT counter of stock_alerts.id
    triggered_alerts,  \* AlertManager.triggered_alerts (the in-memory queue)
    chk,               \* per thread: where it is inside check_alerts, and its locals
    \* ---- observations of the alert engine (history) ----
    fireCount,         \* id -> number of events returned for the alert, over all calls
    sat,               \* id -> calls so far whose quote met the alert's condition:
                       \*       "never", "once" or "again" (more than once)
    satPos,            \* id -> the same, counting positive prices only
    lastOp,            \* the last completed operation, its arguments and its result
    pushed,            \* every event appended to the queue, in order
    delivered,         \* every event returned by a clearing get_recent_triggers
    evicted            \* number of events dropped by the 50-entry trim

alertVars == <<alerts, nextId, triggered_alerts, chk,
               fireCount, sat, satPos, lastOp, pushed, delivered, evicted>>

VARIABLES
    \* ---- session manager (ShioajiWorker) ----
    api,               \* self.api: "none", "new" (created, not logged in),
                       \*           "in" (logged in) or "out" (logout called)
    is_connected,      \* self.is_connected
    is_running,        \* self.is_running
    thread,            \* self._thread: {} for None, else {the thread created last}
    lock,              \* self._lock: the set of threads holding it
    retry_count,       \* self._retry_count
    pc,                \* per thread: the statement it is at
    loc,               \* per thread: its locals
    logouts,           \* logout() calls on the API object self.api
    \* ---- observations of the session manager (history) ----
    fails,             \* reconnect() calls in a row that returned False
    phase              \* "failed" while start() runs with the session Failed, else "run"

workerVars == <<api, is_connected, is_running, thread, lock, retry_count,
                pc, loc, logouts, fails, phase>>

VARIABLES
    \* ---- quote cache (ShioajiWorker.cache) ----
    cache,             \* self.cache: stock_id -> reference of the snapshot dict
    heap,              \* the snapshot dicts: reference -> dict
    nextRef,           \* the reference the next new dict gets
    held,              \* what the HTTP caller got from the last cache read
    \* ---- observations of the quote cache (history) ----
    lastFetch,         \* the last fetch_snapshots call: what it was given and returned
    lastCacheOp,       \* the last operation on the cache
    \* ---- the wall clock ----
    in_session,        \* the time now is inside a window of TRADING_SESSIONS
    tod                \* datetime.now().time() at the last reading, in minutes

cacheVars == <<cache, heap, nextRef, held, lastFetch, lastCacheOp>>
clockVars == <<in_session, tod>>

VARIABLES
    \* ---- the accesses to the quote cache, one at a time ----
    acc,               \* per thread: the cache operation it is in, and what is left of it
    last_update,       \* self.last_update: the time of the last write (0: None)
    srcTime,           \* the time at the exchange: api.snapshots calls that returned
    \* ---- observations of the accesses (history) ----
    cacheSeq,          \* stock_id -> the time at the exchange of the snapshot cached
    lastAccess         \* the last access: by whom, to what, holding self._lock or not

accessVars == <<acc, last_update, srcTime, cacheSeq, lastAccess>>

VARIABLES
    \* ---- one iteration of _worker_loop after the connection check ----
    stock_ids,         \* the local stock_ids
    results,           \* the local results: stock_id -> reference of the dict
    save_counter,      \* the local save_counter
    snapshots_db,      \* table price_snapshots: the dicts saved by save_snapshot
    \* ---- observations of the iterations (history) ----
    rounds,            \* iterations of the loop begun so far
    ticks,             \* fetch_snapshots calls of the loop so far
    okTicks,           \* those of them that returned a non-empty map to the loop
    tickLog,           \* the last of them: what was checked, flushed and logged
    afterFailure       \* the last of them raised inside, and no reconnect() since

tickProg == <<stock_ids, results, save_counter, snapshots_db>>
tickVars == <<tickProg, rounds, ticks, okTicks, tickLog, afterFailure>>

VARIABLES
    \* ---- one scheduled job ----
    job,               \* the job looked at
    day,               \* date.today(), as a day number
    slot,              \* the time of the day, as a slot
    boot,              \* main.py lifespan: "down", "started" (start() done), "wired"
    registered,        \* the function the scheduler's cron job calls
    attr,              \* the function the worker's attribute is bound to
    last_run,          \* last_fetch_date / last_review_date (0: None)
    job_status,        \* last_fetch_status
    task,              \* per executor: where its call of the job is
    \* ---- observations of the job (history) ----
    bodyRuns,          \* bodies begun today by the cron firing and the catch-up
    lastDone,          \* the last call that ended
    lastHook           \* per executor: how its last call went, and its hook after it

jobVars == <<job, day, slot, boot, registered, attr, last_run, job_status,
             task, bodyRuns, lastDone, lastHook>>
jobObs == <<bodyRuns, lastDone, lastHook>>

VARIABLES
    \* ---- one call of AIAnalyzer.generate ----
    gen                \* self.model, the locals of the call, and what it returned

genVars == <<gen>>

\* The variables an operation of one component leaves alone.
outsideAlert == <<tickVars, workerVars, cacheVars, clockVars, accessVars, jobVars, genVars>>
outsideWorker == <<tickVars, alertVars, cacheVars, clockVars, accessVars, jobVars, genVars>>
outsideCache == <<tickVars, alertVars, workerVars, clockVars, accessVars, jobVars, genVars>>
outsideJobs == <<tickVars, alertVars, workerVars, cacheVars, clockVars, accessVars, genVars>>
outsideGen == <<alertVars, workerVars, cacheVars, clockVars, accessVars, tickVars, jobVars>>
outsideAccess == <<tickVars, alertVars, api, is_connected, is_running, thread, retry_count,
                   pc, loc, logouts, fails, phase, lastFetch, lastCacheOp,
                   clockVars, jobVars, genVars>>

vars == <<alertVars, workerVars, cacheVars, clockVars, accessVars, tickVars, jobVars,
          genVars>>

-----------------------------------------------------------------------------
(***************************************************************************)
(* Sequence helpers.                                                       *)
(***************************************************************************)
Max(S) == CHOOSE m \in S : \A x \in S : x <= m

\* Python's s[-n:] for n > 0.
LastN(s, n) == IF Len(s) <= n THEN s ELSE SubSeq(s, Len(s) - n + 1, Len(s))

RECURSIVE IsSubseq(_, _)
IsSubseq(s, t) ==
    IF s = <<>> THEN TRUE
    ELSE IF t = <<>> THEN FALSE
    ELSE IF Head(s) = Head(t) THEN IsSubseq(Tail(s), Tail(t))
    ELSE IsSubseq(s, Tail(t))

EventIds(evs) == {evs[k].id : k \in 1..Len(evs)}

-----------------------------------------------------------------------------
(***************************************************************************)
(* Alert engine: pure parts of AlertManager.                               *)
(***************************************************************************)
QueueCap == 50

\* One row of stock_alerts as add_alert inserts it (is_triggered DEFAULT 0).
NewRow(sid, type, target) ==
    [stock_id |-> sid, alert_type |-> type, target_price |-> target,
     is_triggered |-> 0]

\* Mutant of GetActiveAlerts: the WHERE is_triggered = 0 filter is missing.
GetActiveAlerts_NoFilter(store) ==
    LET top == IF DOMAIN store = {} THEN 0 ELSE Max(DOMAIN store)
        desc == [k \in 1..top |-> top + 1 - k]
        ids == SelectSeq(desc, LAMBDA i : i \in DOMAIN store)
    IN [k \in 1..Len(ids) |->
           [id |-> ids[k], stock_id |-> store[ids[k]].stock_id,
            alert_type |-> store[ids[k]].alert_type,
            target_price |-> store[ids[k]].target_price]]

\* SELECT * FROM stock_alerts WHERE is_triggered = 0 ORDER BY created_at DESC.
\* Rows are created in id order, so newest first is id descending.
GetActiveAlerts(store) ==
    LET top == IF DOMAIN store = {} THEN 0 ELSE Max(DOMAIN store)
        desc == [k \in 1..top |-> top + 1 - k]
        ids == SelectSeq(desc, LAMBDA i : i \in DOMAIN store /\ store[i].is_triggered = 0)
    IN [k \in 1..Len(ids) |->
           [id |-> ids[k], stock_id |-> store[ids[k]].stock_id,
            alert_type |-> store[ids[k]].alert_type,
            target_price |-> store[ids[k]].target_price]]

\* quotes.get(stock_id) followed by quote.get("price", 0): 0 stands for a
\* missing quote as well as for a quote without a usable price.
CurrentPrice(alert, quotes) ==
    IF alert.stock_id \in DOMAIN quotes THEN quotes[alert.stock_id] ELSE 0

\* Mutant of IsTriggered: "above" compares with > instead of >=.
IsTriggered_StrictAbove(alert, quotes) ==
    LET current_price == CurrentPrice(alert, quotes) IN
    /\ alert.stock_id \in DOMAIN quotes
    /\ ~(current_price <= 0)
    /\ \/ alert.alert_type = "above" /\ current_price > alert.target_price
       \/ alert.alert_type = "below" /\ current_price <= alert.target_price

\* The body of the for loop up to "if triggered".
IsTriggered(alert, quotes) ==
    LET current_price == CurrentPrice(alert, quotes) IN
    /\ alert.stock_id \in DOMAIN quotes
    /\ ~(current_price <= 0)
    /\ \/ alert.alert_type = "above" /\ current_price >= alert.target_price
       \/ alert.alert_type = "below" /\ current_price <= alert.target_price

\* Mutant of AlertMsg: current_price carries the target instead of the quote.
AlertMsg_TargetAsPrice(alert, quotes) ==
    [id |-> alert.id, stock_id |-> alert.stock_id,
     alert_type |-> alert.alert_type, target_price |-> alert.target_price,
     current_price |-> alert.target_price]

\* alert_msg, without the display-only fields (stock_name, message, triggered_at).
AlertMsg(alert, quotes) ==
    [id |-> alert.id, stock_id |-> alert.stock_id,
     alert_type |-> alert.alert_type, target_price |-> alert.target_price,
     current_price |-> CurrentPrice(alert, quotes)]

\* newly_triggered as the loop builds it from the rows read as active.
NewlyTriggered(active, quotes) ==
    LET hit == SelectSeq(active, LAMBDA a : IsTriggered(a, quotes))
    IN [k \in 1..Len(hit) |-> AlertMsg(hit[k], quotes)]

\* UPDATE stock_alerts SET is_triggered = 1 WHERE id = ?, for every event, then
\* commit. A row deleted meanwhile is simply not matched.
MarkTriggered(store, newly) ==
    [i \in DOMAIN store |->
        IF i \in EventIds(newly) THEN [store[i] EXCEPT !.is_triggered = 1]
        ELSE store[i]]

\* Mutant of ExtendAndTrim: the trim keeps the oldest 50 ([:50]).
ExtendAndTrim_KeepOldest(queue, newly) ==
    IF newly = <<>> THEN queue
    ELSE IF Len(queue \o newly) <= QueueCap THEN queue \o newly
    ELSE SubSeq(queue \o newly, 1, QueueCap)

\* self.triggered_alerts.extend(newly); self.triggered_alerts = ...[-50:]
ExtendAndTrim(queue, newly) ==
    IF newly = <<>> THEN queue ELSE LastN(queue \o newly, QueueCap)

-----------------------------------------------------------------------------
(***************************************************************************)
(* What the claims compare the code with.                                  *)
(***************************************************************************)
\* The alert's condition as the specification words it.
ConditionMet(row, quotes) ==
    /\ row.stock_id \in DOMAIN quotes
    /\ \/ row.alert_type = "above" /\ quotes[row.stock_id] >= row.target_price
       \/ row.alert_type = "below" /\ quotes[row.stock_id] <= row.target_price

\* The condition restricted to usable (positive) prices.
ConditionMetPositive(row, quotes) ==
    /\ ConditionMet(row, quotes)
    /\ quotes[row.stock_id] > 0

CountUp(f, evs) ==
    [i \in DOMAIN f |->
        f[i] + Cardinality({k \in 1..Len(evs) : evs[k].id = i})]

Again(x) == IF x = "never" THEN "once" ELSE "again"

SatUp(f, store, quotes) ==
    [i \in DOMAIN f |->
        IF i \in DOMAIN store /\ ConditionMet(store[i], quotes)
        THEN Again(f[i]) ELSE f[i]]

SatPosUp(f, store, quotes) ==
    [i \in DOMAIN f |->
        IF i \in DOMAIN store /\ ConditionMetPositive(store[i], quotes)
        THEN Again(f[i]) ELSE f[i]]

Overflow(queue, newly) ==
    IF Len(queue) + Len(newly) > QueueCap
    THEN Len(queue) + Len(newly) - QueueCap ELSE 0

NoOp == [op |-> "none", quotes |-> <<>>, clear |-> FALSE, ret |-> <<>>]

IdleChk == [pc |-> "idle", newly |-> <<>>]

fireVars == <<fireCount, sat, satPos>>
callVars == <<lastOp>>
queueVars == <<pushed, delivered, evicted>>

-----------------------------------------------------------------------------
(***************************************************************************)
(* Alert engine: operations (the program's own state only).                *)
(***************************************************************************)
\* The event-loop thread runs one handler at a time, to completion.
HttpFree == chk["http"].pc = "idle"

\* add_alert, reached through POST /api/alert/add (target_price > 0 there).
AddAlert(sid, type, target, limit) ==
    /\ HttpFree
    /\ nextId <= limit
    /\ alerts' = (nextId :> NewRow(sid, type, target)) @@ alerts
    /\ nextId' = nextId + 1
    /\ UNCHANGED <<triggered_alerts, chk, outsideAlert>>

\* delete_alert: DELETE FROM stock_alerts WHERE id = ?
DeleteAlert(id) ==
    /\ HttpFree
    /\ id \in DOMAIN alerts
    /\ alerts' = [i \in DOMAIN alerts \ {id} |-> alerts[i]]
    /\ UNCHANGED <<nextId, triggered_alerts, chk, outsideAlert>>

\* The list check_alerts(quotes) returns when it runs from start to end with no
\* other thread in between.
CheckReturn(quotes) == NewlyTriggered(GetActiveAlerts(alerts), quotes)

\* check_alerts(quotes), run from start to end with no other thread in between.
CheckEffect(quotes) ==
    /\ \A c \in Checkers : chk[c].pc = "idle"
    /\ LET newly_triggered == CheckReturn(quotes)
       IN /\ alerts' = MarkTriggered(alerts, newly_triggered)
          /\ triggered_alerts' = ExtendAndTrim(triggered_alerts, newly_triggered)

CheckAlerts(quotes) ==
    /\ CheckEffect(quotes)
    /\ UNCHANGED <<nextId, chk, outsideAlert>>

\* check_alerts(quotes) as the thread c runs it next to the other thread, in
\* three steps. First: get_active_alerts() and the for loop's evaluation of the
\* rows it returned. An empty read returns [] at once. The UPDATEs of the loop
\* are not visible to others before the commit, and belong to the next step.
CheckRead(c, quotes) ==
    /\ chk[c].pc = "idle"
    /\ LET active_alerts == GetActiveAlerts(alerts)
       IN IF active_alerts = <<>>
          THEN chk' = chk
          ELSE chk' = [chk EXCEPT ![c] =
                          [pc |-> "commit",
                           newly |-> NewlyTriggered(active_alerts, quotes)]]
    /\ UNCHANGED <<alerts, nextId, triggered_alerts, outsideAlert>>

\* Second: the UPDATEs and conn.commit(), one write transaction.
CheckCommit(c) ==
    /\ chk[c].pc = "commit"
    /\ alerts' = MarkTriggered(alerts, chk[c].newly)
    /\ chk' = [chk EXCEPT ![c].pc = "push"]
    /\ UNCHANGED <<nextId, triggered_alerts, outsideAlert>>

\* Third: under self._lock, extend and trim the queue; return newly_triggered.
CheckPush(c) ==
    /\ chk[c].pc = "push"
    /\ triggered_alerts' = ExtendAndTrim(triggered_alerts, chk[c].newly)
    /\ chk' = [chk EXCEPT ![c] = IdleChk]
    /\ UNCHANGED <<alerts, nextId, outsideAlert>>

\* The list get_recent_triggers returns: triggers = list(self.triggered_alerts).
RecentTriggers == triggered_alerts

\* Mutant of GetRecentTriggers: the queue is emptied whatever clear is.
GetRecentTriggers_AlwaysClear(clear) ==
    /\ HttpFree
    /\ triggered_alerts' = <<>>
    /\ UNCHANGED <<alerts, nextId, chk, outsideAlert>>

\* get_recent_triggers(clear); GET /api/alert/triggered calls it with clear=True.
GetRecentTriggers(clear) ==
    /\ HttpFree
    /\ triggered_alerts' = IF clear THEN <<>> ELSE triggered_alerts
    /\ UNCHANGED <<alerts, nextId, chk, outsideAlert>>

-----------------------------------------------------------------------------
(***************************************************************************)
(* Observers: history variables written next to an operation. Each         *)
(* specification records the histories its claims read and leaves the      *)
(* others untouched.                                                       *)
(***************************************************************************)
\* A new alert has fired in no call and met its condition in none.
ObsNewAlert ==
    /\ fireCount' = (nextId :> 0) @@ fireCount
    /\ sat' = (nextId :> "never") @@ sat
    /\ satPos' = (nextId :> "never") @@ satPos

\* A call returned ret for the quote map quotes.
ObsFired(quotes, ret) ==
    /\ fireCount' = CountUp(fireCount, ret)
    /\ sat' = SatUp(sat, alerts, quotes)
    /\ satPos' = SatPosUp(satPos, alerts, quotes)

ObsCall(op, quotes, clear, ret) ==
    lastOp' = [op |-> op, quotes |-> quotes, clear |-> clear, ret |-> ret]

\* newly is appended to the queue.
ObsPushed(newly) ==
    /\ pushed' = pushed \o newly
    /\ evicted' = evicted + Overflow(triggered_alerts, newly)
    /\ UNCHANGED delivered

\* The queue is read, and emptied if clear.
ObsDrained(clear) ==
    /\ delivered' = IF clear THEN delivered \o RecentTriggers ELSE delivered
    /\ UNCHANGED <<pushed, evicted>>

-----------------------------------------------------------------------------
(***************************************************************************)
(* Session manager: ShioajiWorker (src/workers/shioaji_worker.py).         *)
(* Threads: the main thread, which runs start() and stop(), and the loop   *)
(* threads that start() creates. Each thread is at one statement (pc) and  *)
(* has its locals (loc).                                                   *)
(***************************************************************************)
MainThread == 0
LoopThreads == 1..MaxThreads
Threads == {MainThread} \cup LoopThreads

MaxRetry == 10          \* self._max_retry
ContractWaits == 20     \* for i in range(20)
RetryDelays == <<5, 10, 15, 30, 60, 60, 120, 120, 300, 300>>

\* The seconds _worker_loop sleeps: outside the trading sessions, after a
\* reconnect() that failed, with an empty watchlist, after a fetch, and after
\* a reconnect() that failed in the except branch.
IdleSleep == 60
ReconnectFailSleep == 60
EmptyWatchlistSleep == 30
PollSleep == 15
ExceptSleep == 120

InitLoc == [site |-> "none", i |-> 0, ret |-> FALSE, delay |-> 0, tmp |-> 0,
            exc |-> FALSE, login |-> "none", nap |-> 0]

\* pc values inside connect() and inside disconnect()
ConnectPcs == {"connect", "login", "wait", "connect_ok", "connect_except"}
DisconnectPcs == {"disconnect", "disconnect_except", "disconnect_finally"}

Goto(t, label) == pc' = [pc EXCEPT ![t] = label]

-----------------------------------------------------------------------------
(***************************************************************************)
(* Scheduled jobs (src/main.py, src/workers/institutional_worker.py,       *)
(* margin_worker.py, ai_analyzer.py, tdcc_worker.py). One job is looked at *)
(* at a time: the jobs share no state. A job runs as a cron firing of the  *)
(* BackgroundScheduler, as the catch-up thread of start(), or from its     *)
(* HTTP handler.                                                           *)
(***************************************************************************)
Jobs == {"inst", "margin", "ai", "tdcc"}
Executors == {"cron", "catchup", "manual"}
Scheduled == {"cron", "catchup"}

\* The jobs whose function start() registers and main.py wraps afterwards.
HookedJobs == {"inst", "ai"}

\* Days are numbered so that day % 7 is 1 on a Monday; the first day is a
\* Friday. date.weekday() >= 5 is Saturday or Sunday.
FirstDay == 5
Days == FirstDay..(FirstDay + MaxDays - 1)
Weekend(d) == d % 7 \in {6, 0}
Friday(d) == d % 7 = 5

\* The time of the day in slots: 0 before 18:00, 1 from 18:00, 2 from 18:05,
\* 3 from 18:10, 4 from 18:15, 5 from 18:30 to 18:59.
LastSlot == 5

\* The slot that begins at the time of the job's cron trigger.
CronSlot(j) ==
    CASE j = "inst" -> 2
      [] j = "margin" -> 3
      [] j = "ai" -> 4
      [] j = "tdcc" -> 5

\* cron: every day, day_of_week="fri" for the weekly census.
CronDay(j, d) == j = "tdcc" => Friday(d)

\* start(): now.hour >= 18 (institutional), now.hour >= 18 and
\* now.minute >= 15 (AI review); the other jobs have no catch-up.
CatchUpTime(j, s) ==
    CASE j = "inst" -> s >= 1
      [] j = "ai" -> s >= 4
      [] OTHER -> FALSE

\* The status attribute after __init__; the AI analyzer and the census
\* worker have none.
InitStatus(j) == IF j \in {"inst", "margin"} THEN "idle" ELSE "none"

IdleTask == [pc |-> "idle", target |-> "none"]
NoneDone == [by |-> "none", outcome |-> "none", hook |-> FALSE,
             status |-> "none", last_run |-> 0]

NoHook == [after |-> "none", result |-> "none"]

InitJob(j) ==
    /\ job = j
    /\ day = FirstDay
    /\ slot = 0
    /\ boot = "down"
    /\ registered = "none"
    /\ attr = "original"
    /\ last_run = 0
    /\ job_status = InitStatus(j)
    /\ task = [e \in Executors |-> IdleTask]
    /\ bodyRuns = 0
    /\ lastDone = NoneDone
    /\ lastHook = [e \in Executors |-> NoHook]

\* main.py lifespan up to line 85: the start() of the job's worker adds the
\* cron job with the function the attribute is bound to at that moment
\* and, when the trigger time has passed and the job has not run today,
\* starts the catch-up thread with it.
Boot ==
    /\ boot = "down"
    /\ boot' = "started"
    /\ registered' = attr
    /\ task' = IF CatchUpTime(job, slot) /\ last_run # day
               THEN [task EXCEPT !["catchup"] = [pc |-> "called", target |-> attr]]
               ELSE task
    /\ UNCHANGED <<job, day, slot, attr, last_run, job_status>>

\* main.py lines 108-138: the attribute scheduled_fetch /
\* scheduled_daily_review is rebound to the function that calls the
\* original and then the Telegram notification.
Wire ==
    /\ boot = "started"
    /\ boot' = "wired"
    /\ attr' = IF job \in HookedJobs THEN "wrapped" ELSE attr
    /\ UNCHANGED <<job, day, slot, registered, last_run, job_status, task>>

\* The clock reaches the next slot; at the job's trigger time the scheduler
\* calls the function it has registered, in a thread of its pool.
AdvanceTime ==
    /\ slot < LastSlot
    /\ slot' = slot + 1
    /\ task' = IF /\ boot # "down"
                  /\ slot + 1 = CronSlot(job)
                  /\ CronDay(job, day)
                  /\ task["cron"].pc = "idle"
               THEN [task EXCEPT !["cron"] = [pc |-> "called", target |-> registered]]
               ELSE task
    /\ UNCHANGED <<job, day, boot, registered, attr, last_run, job_status>>

\* Midnight, with no execution of the job in flight.
NextDay ==
    /\ day + 1 \in Days
    /\ \A e \in Executors : task[e].pc = "idle"
    /\ day' = day + 1
    /\ slot' = 0
    /\ UNCHANGED <<job, boot, registered, attr, last_run, job_status, task>>

\* Mutant of Skips: the HTTP handlers look at the last-run date as well.
Skips_GuardsManual(by, j, d, last) ==
    j \in HookedJobs /\ (Weekend(d) \/ last = d)

\* scheduled_fetch / scheduled_daily_review return at once at the weekend
\* and when the last-run date is today; fetch_margin_data and
\* _tdcc_weekly_fetch, and the functions the HTTP handlers call
\* (manual_fetch, generate_daily_review, fetch_margin_data, fetch_and_save),
\* have no such test.
Skips(by, j, d, last) ==
    by \in Scheduled /\ j \in HookedJobs /\ (Weekend(d) \/ last = d)

\* The status when the body begins: "fetching" in scheduled_fetch and
\* manual_fetch only.
StatusAtStart(j, status) == IF j = "inst" THEN "fetching" ELSE status

\* How a body can end: it returns, it raises, (fetch_margin_data) it
\* returns [] because the exchange has no data yet or the watchlist is
\* empty, or (scheduled_fetch, manual_fetch) its two fetches failed: they
\* catch the network error, or find the data not published, and return
\* None and [].
Outcomes(j) ==
    CASE j = "margin" -> {"returned", "raised", "nodata"}
      [] j = "inst" -> {"returned", "raised", "failed"}
      [] OTHER -> {"returned", "raised"}

\* The status when the body has ended.
StatusAtEnd(j, outcome, status) ==
    IF j \in {"inst", "margin"}
    THEN CASE outcome = "returned" -> "success"
           [] outcome = "raised" -> "error"
           [] outcome = "failed" -> "success"
           [] OTHER -> status
    ELSE status

\* The last-run date when the body has ended on day d: set on a return,
\* but not by manual_fetch.
LastRunAtEnd(by, j, outcome, d, last) ==
    IF outcome \in {"returned", "failed"} /\ ~(by = "manual" /\ j = "inst")
    THEN d ELSE last

\* The notification runs when the function called is main.py's wrapper: it
\* calls the original and then notifies.
Hooked(target) == target = "wrapped"

\* An HTTP handler calls the job's function.
ManualCall ==
    /\ boot # "down"
    /\ task["manual"].pc = "idle"
    /\ task' = [task EXCEPT !["manual"] = [pc |-> "called", target |-> "original"]]
    /\ UNCHANGED <<job, day, slot, boot, registered, attr, last_run, job_status>>

\* The job's function has returned to the function that was called: to
\* main.py's wrapper, which goes on to the notification, or to the caller.
Returned(t) == IF Hooked(t.target) THEN [t EXCEPT !.pc = "hook"] ELSE IdleTask

\* The function called tests whether to run and, if it runs, sets the status.
TaskStart(e) ==
    /\ task[e].pc = "called"
    /\ IF Skips(e, job, day, last_run)
       THEN /\ task' = [task EXCEPT ![e] = Returned(task[e])]
            /\ UNCHANGED job_status
       ELSE /\ task' = [task EXCEPT ![e].pc = "body"]
            /\ job_status' = StatusAtStart(job, job_status)
    /\ UNCHANGED <<job, day, slot, boot, registered, attr, last_run>>

\* The body ends, the status and the last-run date are written, the caller
\* gets the control back.
TaskEnd(e, outcome) ==
    /\ task[e].pc = "body"
    /\ outcome \in Outcomes(job)
    /\ job_status' = StatusAtEnd(job, outcome, job_status)
    /\ last_run' = LastRunAtEnd(e, job, outcome, day, last_run)
    /\ task' = [task EXCEPT ![e] = Returned(task[e])]
    /\ UNCHANGED <<job, day, slot, boot, registered, attr>>

\* How the notification of the wrapper can end: the message is sent, nothing
\* is sent (the bot is not ready, get_market_institutional() has no row,
\* last_review_date is None), or the lookup or the notifier raises. With
\* last_review_date None ai_review_with_tg makes no call at all.
HookResults(j, last) ==
    IF j = "ai" /\ last = 0 THEN {"quiet"} ELSE {"sent", "quiet", "raised"}

\* Mutant of StatusAfterHook: a hook that raises marks the job as failed.
StatusAfterHook_Error(result, status) ==
    IF result = "raised" THEN "error" ELSE status

\* The wrappers write neither the status nor the last-run date.
StatusAfterHook(result, status) == status

\* inst_fetch_with_tg / ai_review_with_tg after the original has returned:
\* the notification; an exception leaves the wrapper for its caller.
HookEnd(e, result) ==
    /\ task[e].pc = "hook"
    /\ result \in HookResults(job, last_run)
    /\ job_status' = StatusAfterHook(result, job_status)
    /\ task' = [task EXCEPT ![e] = IdleTask]
    /\ UNCHANGED <<job, day, slot, boot, registered, attr, last_run>>

\* A firing that calls the function the attribute scheduled_fetch /
\* scheduled_daily_review is bound to when it fires.
AttrFiring ==
    /\ boot # "down"
    /\ task["cron"].pc = "idle"
    /\ task' = [task EXCEPT !["cron"] = [pc |-> "called", target |-> attr]]
    /\ UNCHANGED <<job, day, slot, boot, registered, attr, last_run, job_status>>

\* ---- observers of the jobs ----
\* A call ended: who made it, how, whether the notification followed, and
\* the status and last-run date it left.
ObsTaskStart(e) ==
    /\ bodyRuns' = IF ~Skips(e, job, day, last_run) /\ e \in Scheduled
                   THEN bodyRuns + 1 ELSE bodyRuns
    /\ lastDone' = IF Skips(e, job, day, last_run)
                   THEN [by |-> e, outcome |-> "skipped",
                         hook |-> Hooked(task[e].target),
                         status |-> job_status, last_run |-> last_run]
                   ELSE lastDone
    /\ lastHook' = IF Skips(e, job, day, last_run)
                   THEN [lastHook EXCEPT ![e] = [after |-> "skipped", result |-> "none"]]
                   ELSE lastHook

ObsTaskEnd(e, outcome) ==
    /\ lastDone' = [by |-> e, outcome |-> outcome,
                    hook |-> Hooked(task[e].target),
                    status |-> job_status', last_run |-> last_run']
    /\ lastHook' = [lastHook EXCEPT ![e] = [after |-> outcome, result |-> "none"]]
    /\ UNCHANGED bodyRuns

ObsNextDay ==
    /\ bodyRuns' = 0
    /\ lastDone' = NoneDone
    /\ lastHook' = [e \in Executors |-> NoHook]

\* The notification hook of the call of e ended.
ObsHookEnd(e, result) ==
    /\ lastHook' = [lastHook EXCEPT ![e].result = result]
    /\ UNCHANGED <<bodyRuns, lastDone>>

-----------------------------------------------------------------------------
(***************************************************************************)
(* Quote cache and fetch_snapshots (src/workers/shioaji_worker.py). A      *)
(* snapshot dict is an object on the heap; the cache, the map a fetch      *)
(* returns and the values a reader gets hold references to such objects.   *)
(***************************************************************************)
\* The stock_ids argument: the watchlist's ids, each once, in some order.
FetchIds ==
    {ids \in UNION {[1..n -> Symbols] : n \in 1..Cardinality(Symbols)} :
        \A i, j \in DOMAIN ids : ids[i] = ids[j] => i = j}

\* self.api.Contracts.Stocks[sid] per symbol: a contract, a falsy value, or
\* the lookup raises.
Resolutions == [Symbols -> {"contract", "none", "raises"}]

\* The prices the exchange has per symbol when the snapshots are requested.
FetchPrices == 1..MaxFetchPrice
Markets == [Symbols -> FetchPrices]

NoFetch == [status |-> "none", requested |-> {}, resolved |-> {},
            market |-> <<>>, ret |-> <<>>]
NotHeld == [map |-> <<>>, one |-> {}]

\* self.cache = {} in ShioajiWorker.__init__; nothing read or fetched yet.
InitCache ==
    /\ cache = <<>>
    /\ heap = <<>>
    /\ nextRef = 1
    /\ held = NotHeld
    /\ lastFetch = NoFetch
    /\ lastCacheOp = "none"

\* Lines 116-125: the symbols whose lookup gave a contract, in request order.
ValidIds(ids, res) == SelectSeq(ids, LAMBDA sid : res[sid] = "contract")

\* self.api.snapshots(contracts): one snapshot per contract, in the order of
\* the request.
Snapshots(contracts, market) ==
    [k \in 1..Len(contracts) |->
        [code |-> contracts[k], close |-> market[contracts[k]]]]

\* Mutant of PairedId: the snapshots are paired with the ids back to front.
PairedId_Reversed(valid_ids, i) == valid_ids[Len(valid_ids) + 1 - i]

\* sid = valid_ids[i] for the i-th snapshot
PairedId(valid_ids, i) == valid_ids[i]

\* data = {"stock_id": sid, ..., "price": price, ...}
SnapshotData(sid, snap) == [stock_id |-> sid, price |-> snap.close]

\* The number of snapshots fetch_snapshots has put into the cache when it
\* returns: none when it is not connected, when no id resolved or when
\* api.snapshots raised (failAt = 0); failAt - 1 when handling the failAt-th
\* snapshot raised; all otherwise.
Written(connected, valid_ids, failAt) ==
    IF ~connected \/ valid_ids = <<>> \/ failAt = 0 THEN 0
    ELSE IF failAt <= Len(valid_ids) THEN failAt - 1
    ELSE Len(valid_ids)

\* The fetch got to its return results: no early return {} and no except.
Completed(connected, valid_ids, failAt) ==
    connected /\ valid_ids # <<>> /\ failAt > Len(valid_ids)

\* Mutant of PutCache: an entry the cache already has is kept.
PutCache_KeepOld(c, sid, ref) ==
    IF sid \in DOMAIN c THEN c ELSE (sid :> ref) @@ c

\* self.cache[sid] = data
PutCache(c, sid, ref) == (sid :> ref) @@ c

RECURSIVE PutAll(_, _, _, _)
\* The cache after the first w snapshots are written, the i-th under its
\* paired id with the reference first + i - 1.
PutAll(c, valid_ids, first, w) ==
    IF w = 0 THEN c
    ELSE PutCache(PutAll(c, valid_ids, first, w - 1),
                  PairedId(valid_ids, w), first + w - 1)

\* The dicts the fetch creates for its first w snapshots.
NewDicts(valid_ids, snaps, first, w) ==
    [r \in first..(first + w - 1) |->
        SnapshotData(PairedId(valid_ids, r - first + 1), snaps[r - first + 1])]

\* results: sid -> reference of data, for the w snapshots handled.
Results(valid_ids, first, w) ==
    PutAll(<<>>, valid_ids, first, w)

\* fetch_snapshots(stock_ids), run from start to end with no other thread in
\* between: what it writes to the cache and what it returns.
FetchReturn(connected, ids, res, failAt) ==
    LET valid_ids == ValidIds(ids, res)
    IN IF Completed(connected, valid_ids, failAt)
       THEN Results(valid_ids, nextRef, Len(valid_ids))
       ELSE <<>>

FetchEffect(cap, ids, res, market, failAt) ==
    /\ nextRef + Len(ids) - 1 <= cap
    /\ LET connected == is_connected /\ api # "none"
           valid_ids == ValidIds(ids, res)
           snaps == Snapshots(valid_ids, market)
           w == Written(connected, valid_ids, failAt)
       IN /\ heap' = NewDicts(valid_ids, snaps, nextRef, w) @@ heap
          /\ cache' = PutAll(cache, valid_ids, nextRef, w)
          /\ nextRef' = nextRef + w

FetchSnapshots(ids, res, market, failAt) ==
    /\ FetchEffect(MaxSnapshots, ids, res, market, failAt)
    /\ UNCHANGED <<held, outsideCache>>

\* The locals of _worker_loop and the store before the first iteration.
NoTick == [n |-> 0, ok |-> FALSE, checked |-> <<>>, hooked |-> FALSE,
           flushed |-> FALSE, failed |-> {}]

InitTick ==
    /\ stock_ids = <<>>
    /\ results = <<>>
    /\ save_counter = 0
    /\ snapshots_db = {}
    /\ rounds = 0
    /\ ticks = 0
    /\ okTicks = 0
    /\ tickLog = NoTick
    /\ afterFailure = FALSE

PollThread == 1
AccThreads == {MainThread, PollThread}

\* The HTTP handlers that touch the cache.
Handlers == {"quotes", "quote", "status", "backtest", "refresh"}

\* What a handler reads, in order, and whether the read is made through
\* get_cache() / get_stock_cache(), which take self._lock:
\*   get_all_quotes: worker.get_cache(), then worker.last_update
\*   get_single_quote: worker.get_stock_cache(stock_id)
\*   get_worker_status: len(w.cache), then w.last_update
\*   ai_backtest: shioaji_worker.cache
Reads(handler) ==
    CASE handler = "quotes" ->
            <<[field |-> "cache", locks |-> TRUE],
              [field |-> "last_update", locks |-> FALSE]>>
      [] handler = "quote" -> <<[field |-> "cache", locks |-> TRUE]>>
      [] handler = "status" ->
            <<[field |-> "cache", locks |-> FALSE],
              [field |-> "last_update", locks |-> FALSE]>>
      [] handler = "backtest" -> <<[field |-> "cache", locks |-> FALSE]>>
      [] OTHER -> <<>>

IdleOp == [kind |-> "none", pc |-> "idle", todo |-> <<>>, at |-> 0]
NoAccess == [by |-> -1, field |-> "none", kind |-> "none", locked |-> FALSE]

InitAccess ==
    /\ acc = [t \in AccThreads |-> IdleOp]
    /\ last_update = 0
    /\ srcTime = 0
    /\ cacheSeq = [sid \in Symbols |-> 0]
    /\ lastAccess = NoAccess

(***************************************************************************)
(* AIAnalyzer.generate(prompt): the calls of the provider and the retries. *)
(***************************************************************************)
\* def generate(self, prompt, max_retries: int = 2)
max_retries == 2

\* The prompts of the callers.
Prompts == {"P1", "P2"}

\* What self.model.generate_content(prompt) followed by response.text does:
\* it gives a text, or it raises an exception e.
Replies ==
    [ok : {TRUE}, val : {"text1", "text2"}]
        \cup [ok : {FALSE}, val : {"e1", "e2", "e3"}]

\* What the call has returned: nothing yet, a text of the provider, the
\* string f"[AI 分析暫時無法使用: {e}]" made of the exception e, or None at
\* the end of the function body.
NoReturn == [kind |-> "running", val |-> ""]
Text(response) == [kind |-> "text", val |-> response.val]
Unavailable(e) == [kind |-> "unavailable", val |-> e.val]
ReturnNone == [kind |-> "None", val |-> ""]

\* AIAnalyzer.__init__: self.model = None, and no call of generate.
InitGen ==
    gen = [pc |-> "idle", model |-> FALSE, prompt |-> "", attempt |-> 0,
           log |-> <<>>, ret |-> NoReturn]

\* generate(prompt) is called: init_model() if self.model is not set, and
\* the for loop begins with attempt = 0.
GenerateCall(prompt) ==
    /\ gen.pc \in {"idle", "done"}
    /\ gen' = [pc |-> "try", model |-> TRUE, prompt |-> prompt, attempt |-> 0,
               log |-> <<>>, ret |-> NoReturn]
    /\ UNCHANGED outsideGen

\* A version that never finds the last round.
LastAttempt_OneMore(attempt) == attempt = max_retries + 1

\* if attempt == max_retries
LastAttempt(attempt) == attempt = max_retries

\* for attempt in range(max_retries + 1): the round after this one, or the
\* end of the function body.
NextAttempt(g) ==
    IF g.attempt + 1 < max_retries + 1
    THEN [g EXCEPT !.attempt = @ + 1]
    ELSE [g EXCEPT !.pc = "done", !.ret = ReturnNone]

\* One round of the loop: the provider is called; its text is returned, or
\* its exception is caught and, in the last round, the string is returned.
GenerateAttempt(reply) ==
    /\ gen.pc = "try"
    /\ LET called == [gen EXCEPT !.log = Append(@, reply)]
       IN gen' = IF reply.ok
                 THEN [called EXCEPT !.pc = "done", !.ret = Text(reply)]
                 ELSE IF LastAttempt(gen.attempt)
                      THEN [called EXCEPT !.pc = "done", !.ret = Unavailable(reply)]
                      ELSE NextAttempt(called)
    /\ UNCHANGED outsideGen

NextGenerate ==
    \/ \E prompt \in Prompts : GenerateCall(prompt)
    \/ \E reply \in Replies : GenerateAttempt(reply)

\* The state after ShioajiWorker.__init__, but for api and is_connected.
InitWorkerRest ==
    /\ is_running = FALSE
    /\ thread = {}
    /\ lock = {}
    /\ retry_count = 0
    /\ pc = [t \in Threads |-> IF t = MainThread THEN "idle" ELSE "unborn"]
    /\ loc = [t \in Threads |-> InitLoc]
    /\ logouts = 0
    /\ fails = 0
    /\ phase = "run"
    /\ InitCache
    /\ in_session = FALSE
    /\ tod = 0
    /\ InitAccess
    /\ InitTick
    /\ InitGen

\* The state after ShioajiWorker.__init__.
InitWorker ==
    /\ api = "none"
    /\ is_connected = FALSE
    /\ InitWorkerRest
    /\ InitJob("inst")

\* ---- connect() ----
\* with self._lock: if self.is_connected: return True; else a new API object.
ConnectBegin(t) ==
    /\ pc[t] = "connect"
    /\ lock = {}
    /\ IF is_connected
       THEN /\ loc' = [loc EXCEPT ![t].ret = TRUE, ![t].i = 0, ![t].login = "none"]
            /\ Goto(t, "connect_ret")
            /\ UNCHANGED <<api, lock, logouts>>
       ELSE /\ lock' = {t}
            /\ api' = "new"
            /\ logouts' = 0
            /\ loc' = [loc EXCEPT ![t].i = 0, ![t].login = "none"]
            /\ Goto(t, "login")
    /\ UNCHANGED <<is_connected, is_running, thread, retry_count>>

\* self.api.login(...): it returns, or it raises into the outer except.
Login(t) ==
    /\ pc[t] = "login"
    /\ \E ok \in BOOLEAN :
          IF ok
          THEN /\ api' = "in"
               /\ loc' = [loc EXCEPT ![t].login = "ok"]
               /\ Goto(t, "wait")
          ELSE /\ loc' = [loc EXCEPT ![t].login = "failed", ![t].exc = TRUE]
               /\ Goto(t, "connect_except")
               /\ UNCHANGED api
    /\ UNCHANGED <<is_connected, is_running, thread, lock, retry_count, logouts>>

\* Mutant of WaitDone: the wait for the contracts has no last round.
WaitDone_Unbounded(i) == FALSE

\* for i in range(20): the loop is over after ContractWaits rounds.
WaitDone(i) == i >= ContractWaits

\* One round of the wait for the contracts: found -> break; not found, or
\* the lookup raised (caught) -> time.sleep(1) and the next round.
WaitContracts(t) ==
    /\ pc[t] = "wait"
    /\ IF WaitDone(loc[t].i)
       THEN Goto(t, "connect_ok") /\ UNCHANGED loc
       ELSE \E seen \in {"loaded", "missing", "raises"} :
               IF seen = "loaded"
               THEN Goto(t, "connect_ok") /\ UNCHANGED loc
               ELSE /\ loc' = [loc EXCEPT ![t].i = @ + 1]
                    /\ UNCHANGED pc
    /\ UNCHANGED <<api, is_connected, is_running, thread, lock, retry_count,
                   logouts>>

\* self.is_connected = True; self._retry_count = 0; return True
ConnectOk(t) ==
    /\ pc[t] = "connect_ok"
    /\ is_connected' = TRUE
    /\ retry_count' = 0
    /\ loc' = [loc EXCEPT ![t].ret = TRUE]
    /\ lock' = {}
    /\ Goto(t, "connect_ret")
    /\ UNCHANGED <<api, is_running, thread, logouts>>

\* except Exception: self.is_connected = False; return False
ConnectExcept(t) ==
    /\ pc[t] = "connect_except"
    /\ is_connected' = FALSE
    /\ loc' = [loc EXCEPT ![t].ret = FALSE, ![t].exc = FALSE]
    /\ lock' = {}
    /\ Goto(t, "connect_ret")
    /\ UNCHANGED <<api, is_running, thread, retry_count, logouts>>

\* connect() has returned loc[t].ret to its caller: start() in the main
\* thread, reconnect() in a loop thread.
ConnectReturn(t) ==
    /\ pc[t] = "connect_ret"
    /\ Goto(t, IF t = MainThread THEN "start_run" ELSE "reconnect_ret")
    /\ UNCHANGED <<api, is_connected, is_running, thread, lock, retry_count,
                   loc, logouts>>

\* ---- disconnect() ----
\* with self._lock: try: if self.api and self.is_connected: self.api.logout()
DisconnectBegin(t) ==
    /\ pc[t] = "disconnect"
    /\ lock = {}
    /\ lock' = {t}
    /\ IF api # "none" /\ is_connected
       THEN \E raises \in BOOLEAN :
               /\ api' = "out"
               /\ logouts' = logouts + 1
               /\ loc' = [loc EXCEPT ![t].exc = raises]
               /\ Goto(t, IF raises THEN "disconnect_except"
                                    ELSE "disconnect_finally")
       ELSE /\ Goto(t, "disconnect_finally")
            /\ UNCHANGED <<api, logouts, loc>>
    /\ UNCHANGED <<is_connected, is_running, thread, retry_count>>

\* except Exception as e: print(...)
DisconnectExcept(t) ==
    /\ pc[t] = "disconnect_except"
    /\ loc' = [loc EXCEPT ![t].exc = FALSE]
    /\ Goto(t, "disconnect_finally")
    /\ UNCHANGED <<api, is_connected, is_running, thread, lock, retry_count,
                   logouts>>

\* Mutant of IsConnectedAfterDisconnect: the finally branch leaves the flag.
IsConnectedAfterDisconnect_Keep == is_connected

\* finally: self.is_connected = False
IsConnectedAfterDisconnect == FALSE

\* finally: ...; the lock is released and disconnect() returns to stop()
\* (main thread) or to reconnect() (loop thread). subscribed_stocks is
\* cleared too; nothing ever adds to it.
DisconnectFinally(t) ==
    /\ pc[t] = "disconnect_finally"
    /\ is_connected' = IsConnectedAfterDisconnect
    /\ lock' = {}
    /\ Goto(t, IF t = MainThread THEN "stop_ret" ELSE "reconnect_delay")
    /\ UNCHANGED <<api, is_running, thread, retry_count, loc, logouts>>

\* ---- connect() and disconnect(), each as one step ----
\* What connect() leaves when it runs from start to end: it holds self._lock
\* throughout, so no other holder of the lock sees a state in between.
Connect(t) ==
    /\ pc[t] = "connect"
    /\ lock = {}
    /\ IF is_connected
       THEN /\ loc' = [loc EXCEPT ![t].ret = TRUE]
            /\ UNCHANGED <<api, is_connected, retry_count, logouts>>
       ELSE \E ok \in BOOLEAN :
               /\ api' = IF ok THEN "in" ELSE "new"
               /\ logouts' = 0
               /\ is_connected' = ok
               /\ retry_count' = IF ok THEN 0 ELSE retry_count
               /\ loc' = [loc EXCEPT ![t].ret = ok]
    /\ Goto(t, IF t = MainThread THEN "start_run" ELSE "reconnect_ret")
    /\ UNCHANGED <<is_running, thread, lock>>

\* What disconnect() leaves when it runs from start to end.
Disconnect(t) ==
    /\ pc[t] = "disconnect"
    /\ lock = {}
    /\ IF api # "none" /\ is_connected
       THEN api' = "out" /\ logouts' = logouts + 1
       ELSE UNCHANGED <<api, logouts>>
    /\ is_connected' = IsConnectedAfterDisconnect
    /\ Goto(t, IF t = MainThread THEN "stop_ret" ELSE "reconnect_delay")
    /\ UNCHANGED <<is_running, thread, lock, retry_count, loc>>

\* ---- reconnect() ----
\* delay_idx = min(self._retry_count, len(self._retry_delays) - 1), 0-based
DelayIdx(count) ==
    IF count < Len(RetryDelays) - 1 THEN count ELSE Len(RetryDelays) - 1

\* delay = self._retry_delays[delay_idx]
ReconnectDelay(t) ==
    /\ pc[t] = "reconnect_delay"
    /\ loc' = [loc EXCEPT ![t].delay = RetryDelays[DelayIdx(retry_count) + 1]]
    /\ Goto(t, "reconnect_load")
    /\ UNCHANGED <<api, is_connected, is_running, thread, lock, retry_count,
                   logouts>>

\* self._retry_count += 1 reads the attribute ...
ReconnectLoad(t) ==
    /\ pc[t] = "reconnect_load"
    /\ loc' = [loc EXCEPT ![t].tmp = retry_count]
    /\ Goto(t, "reconnect_store")
    /\ UNCHANGED <<api, is_connected, is_running, thread, lock, retry_count,
                   logouts>>

\* ... and stores the sum.
ReconnectStore(t) ==
    /\ pc[t] = "reconnect_store"
    /\ retry_count' = loc[t].tmp + 1
    /\ loc' = [loc EXCEPT ![t].tmp = 0]
    /\ Goto(t, "reconnect_check")
    /\ UNCHANGED <<api, is_connected, is_running, thread, lock, logouts>>

\* Mutant of Exhausted: reconnect() never gives up.
Exhausted_Never(count) == FALSE

\* if self._retry_count > self._max_retry
Exhausted(count) == count > MaxRetry

\* if exhausted: return False; else time.sleep(delay) follows.
ReconnectCheck(t) ==
    /\ pc[t] = "reconnect_check"
    /\ IF Exhausted(retry_count)
       THEN /\ loc' = [loc EXCEPT ![t].ret = FALSE]
            /\ Goto(t, "reconnect_ret")
       ELSE /\ Goto(t, "reconnect_sleep")
            /\ UNCHANGED loc
    /\ UNCHANGED <<api, is_connected, is_running, thread, lock, retry_count,
                   logouts>>

\* time.sleep(delay) is over; return self.connect()
ReconnectSleep(t) ==
    /\ pc[t] = "reconnect_sleep"
    /\ Goto(t, "connect")
    /\ UNCHANGED <<api, is_connected, is_running, thread, lock, retry_count,
                   loc, logouts>>

\* Mutant of NextAfterReconnect: after the reconnect() of the connection
\* check the loop goes on to the fetch whatever reconnect() returned.
NextAfterReconnect_FetchAnyway(ret, site) ==
    IF site = "check" THEN "work"
    ELSE IF ret THEN "loop_top" ELSE "sleep"

\* if not self.reconnect(): time.sleep(...); continue (line 236), or the
\* end of the except branch (line 265).
NextAfterReconnect(ret, site) ==
    IF ~ret THEN "sleep"
    ELSE IF site = "check" THEN "work" ELSE "loop_top"

\* reconnect() has returned loc[t].ret to _worker_loop: at line 236 a True
\* falls through to the fetch, at line 265 it ends the iteration; a False
\* sleeps and ends the iteration.
ReconnectReturn(t) ==
    /\ pc[t] = "reconnect_ret"
    /\ Goto(t, NextAfterReconnect(loc[t].ret, loc[t].site))
    /\ loc' = [loc EXCEPT ![t] =
                  [InitLoc EXCEPT !.nap = IF loc[t].ret THEN 0
                                         ELSE IF loc[t].site = "check"
                                              THEN ReconnectFailSleep
                                              ELSE ExceptSleep]]
    /\ UNCHANGED <<api, is_connected, is_running, thread, lock, retry_count,
                   logouts>>

\* ---- _worker_loop() ----
\* Mutant of NextAtTop: the session is checked whatever the time is.
NextAtTop_NoGate(running, trading) ==
    IF ~running THEN "done" ELSE "check_conn"

\* Mutant of NextAtTop: the loop ends when the time is outside the sessions.
NextAtTop_EndsWhenIdle(running, trading) ==
    IF ~running \/ ~trading THEN "done" ELSE "check_conn"

\* while self.is_running: if not self.is_trading_time(): sleep; continue
NextAtTop(running, trading) ==
    IF ~running THEN "done"
    ELSE IF trading THEN "check_conn" ELSE "sleep"

\* The top of an iteration, with is_trading_time() giving trading.
LoopTopAt(t, trading) ==
    /\ pc[t] = "loop_top"
    /\ Goto(t, NextAtTop(is_running, trading))
    /\ loc' = [loc EXCEPT ![t].nap =
                  IF NextAtTop(is_running, trading) = "sleep" THEN IdleSleep ELSE 0]
    /\ UNCHANGED <<api, is_connected, is_running, thread, lock, retry_count,
                   logouts>>

\* The same, at any time of the day.
LoopTop(t) == \E trading \in BOOLEAN : LoopTopAt(t, trading)

\* a time.sleep(...) of the loop is over; continue
LoopWake(t) ==
    /\ pc[t] = "sleep"
    /\ Goto(t, "loop_top")
    /\ loc' = [loc EXCEPT ![t].nap = 0]
    /\ UNCHANGED <<api, is_connected, is_running, thread, lock, retry_count,
                   logouts>>

\* if not self.is_connected: if not self.reconnect(): ...
LoopCheckConnected(t) ==
    /\ pc[t] = "check_conn"
    /\ IF is_connected
       THEN Goto(t, "work") /\ UNCHANGED loc
       ELSE /\ retry_count < RetryCap
            /\ loc' = [loc EXCEPT ![t].site = "check"]
            /\ Goto(t, "disconnect")
    /\ UNCHANGED <<api, is_connected, is_running, thread, lock, retry_count,
                   logouts>>

\* get_watchlist(), fetch_snapshots(), save_snapshots_to_db() and the sleep
\* of the iteration; an exception goes to the except branch: reconnect().
LoopWork(t) ==
    /\ pc[t] = "work"
    /\ \E raises \in BOOLEAN :
          IF raises
          THEN /\ retry_count < RetryCap
               /\ loc' = [loc EXCEPT ![t].site = "except"]
               /\ Goto(t, "disconnect")
          ELSE /\ Goto(t, "sleep")
               /\ \E nap \in {EmptyWatchlistSleep, PollSleep} :
                     loc' = [loc EXCEPT ![t].nap = nap]
    /\ UNCHANGED <<api, is_connected, is_running, thread, lock, retry_count,
                   logouts>>

\* ---- start() ----
\* if self.is_running: return; else self.connect() follows.
StartCall ==
    /\ pc[MainThread] = "idle"
    /\ IF is_running
       THEN UNCHANGED <<pc, loc>>
       ELSE /\ Goto(MainThread, "connect")
            /\ loc' = [loc EXCEPT ![MainThread] = InitLoc]
    /\ UNCHANGED <<api, is_connected, is_running, thread, lock, retry_count,
                   logouts>>

\* self.is_running = True; self._thread = Thread(...); self._thread.start()
StartRun(n) ==
    /\ pc[MainThread] = "start_run"
    /\ pc[n] = "unborn"
    /\ \A m \in LoopThreads : m < n => pc[m] # "unborn"
    /\ is_running' = TRUE
    /\ thread' = {n}
    /\ pc' = [pc EXCEPT ![MainThread] = "idle", ![n] = "loop_top"]
    /\ loc' = [loc EXCEPT ![MainThread] = InitLoc]
    /\ UNCHANGED <<api, is_connected, lock, retry_count, logouts>>

\* ---- stop() ----
\* self.is_running = False
StopCall ==
    /\ pc[MainThread] = "idle"
    /\ is_running' = FALSE
    /\ Goto(MainThread, "join")
    /\ UNCHANGED <<api, is_connected, thread, lock, retry_count, loc, logouts>>

\* if self._thread: self._thread.join(timeout=10): the thread has ended, or
\* the ten seconds are over with the thread wherever it is; then
\* self.disconnect()
StopJoin ==
    /\ pc[MainThread] = "join"
    /\ Goto(MainThread, "disconnect")
    /\ UNCHANGED <<api, is_connected, is_running, thread, lock, retry_count,
                   loc, logouts>>

\* stop() returns
StopReturn ==
    /\ pc[MainThread] = "stop_ret"
    /\ Goto(MainThread, "idle")
    /\ UNCHANGED <<api, is_connected, is_running, thread, lock, retry_count,
                   loc, logouts>>

\* ---- observers of the session manager ----
\* reconnect() returns: one more failed call in a row, or a successful one.
ObsReconnected(t) ==
    fails' = IF loc[t].ret THEN 0 ELSE fails + 1

\* The session is Failed: reconnect() has given up and nothing is connected.
Failed == Exhausted(retry_count) /\ ~is_connected

\* start() is called and goes on to connect(); start() has started the thread.
ObsStartCalled == phase' = IF ~is_running /\ Failed THEN "failed" ELSE "run"
ObsStarted == phase' = "run"

-----------------------------------------------------------------------------
InitAlerts ==
    /\ alerts = <<>>
    /\ nextId = 1
    /\ triggered_alerts = <<>>
    /\ chk = [c \in Checkers |-> IdleChk]
    /\ fireCount = <<>>
    /\ sat = <<>>
    /\ satPos = <<>>
    /\ lastOp = NoOp
    /\ pushed = <<>>
    /\ delivered = <<>>
    /\ evicted = 0

-----------------------------------------------------------------------------
(***************************************************************************)
(* SpecSeq: alerts are added, check_alerts is called one call after        *)
(* another and the queue is read; records what fired.                      *)
(***************************************************************************)
InitSeq == InitAlerts /\ InitWorker

NextSeq ==
    \/ \E s \in Symbols, ty \in AlertTypes, tg \in Targets :
          AddAlert(s, ty, tg, MaxAlerts) /\ ObsNewAlert
          /\ UNCHANGED <<callVars, queueVars>>
    \/ \E q \in Quotes :
          CheckAlerts(q) /\ ObsFired(q, CheckReturn(q))
          /\ UNCHANGED <<callVars, queueVars>>
    \/ GetRecentTriggers(TRUE) /\ UNCHANGED <<fireVars, callVars, queueVars>>

SpecSeq == InitSeq /\ [][NextSeq]_vars

(***************************************************************************)
(* SpecCall: the same operations and delete_alert; records each call with  *)
(* its arguments and its result.                                           *)
(***************************************************************************)
InitCall == InitAlerts /\ InitWorker

NextCall ==
    \/ \E s \in Symbols, ty \in AlertTypes, tg \in Targets :
          AddAlert(s, ty, tg, MaxAlerts) /\ ObsCall("add", <<>>, FALSE, <<>>)
          /\ UNCHANGED <<fireVars, queueVars>>
    \/ \E id \in DOMAIN alerts :
          DeleteAlert(id) /\ ObsCall("delete", <<>>, FALSE, <<>>)
          /\ UNCHANGED <<fireVars, queueVars>>
    \/ \E q \in Quotes :
          CheckAlerts(q) /\ ObsCall("check", q, FALSE, CheckReturn(q))
          /\ UNCHANGED <<fireVars, queueVars>>
    \/ \E c \in BOOLEAN :
          GetRecentTriggers(c) /\ ObsCall("drain", <<>>, c, RecentTriggers)
          /\ UNCHANGED <<fireVars, queueVars>>

SpecCall == InitCall /\ [][NextCall]_vars

(***************************************************************************)
(* Spec: the alert engine as the running program drives it. The polling    *)
(* thread calls check_alerts from its post-fetch hook while the event-loop *)
(* thread serves the HTTP handlers (add, delete, check, triggered) one at  *)
(* a time.                                                                 *)
(***************************************************************************)
Init == InitAlerts /\ InitWorker

Next ==
    \/ \E s \in Symbols, ty \in AlertTypes, tg \in Targets :
          AddAlert(s, ty, tg, MaxAlerts) /\ ObsNewAlert
          /\ UNCHANGED <<callVars, queueVars>>
    \/ \E id \in DOMAIN alerts :
          DeleteAlert(id) /\ UNCHANGED <<fireVars, callVars, queueVars>>
    \/ \E c \in Checkers, q \in Quotes :
          CheckRead(c, q) /\ UNCHANGED <<fireVars, callVars, queueVars>>
    \/ \E c \in Checkers :
          CheckCommit(c) /\ UNCHANGED <<fireVars, callVars, queueVars>>
    \/ \E c \in Checkers :
          CheckPush(c) /\ ObsPushed(chk[c].newly)
          /\ fireCount' = CountUp(fireCount, chk[c].newly)
          /\ UNCHANGED <<sat, satPos, callVars>>
    \/ GetRecentTriggers(TRUE) /\ ObsDrained(TRUE)
          /\ UNCHANGED <<fireVars, callVars>>

Spec == Init /\ [][Next]_vars

(***************************************************************************)
(* SpecQueue: the trigger queue at its capacity. The store already holds   *)
(* PreloadedAlerts active rows when the process starts (stock_alerts       *)
(* persists across runs). The polling thread runs check_alerts step by     *)
(* step; the event-loop thread adds alerts and reads the queue with or     *)
(* without clearing it.                                                    *)
(***************************************************************************)
PreloadedRows ==
    [i \in 1..PreloadedAlerts |-> NewRow("S1", "above", TargetPrice)]

InitQueue ==
    /\ alerts = PreloadedRows
    /\ nextId = PreloadedAlerts + 1
    /\ triggered_alerts = <<>>
    /\ chk = [c \in Checkers |-> IdleChk]
    /\ fireCount = <<>>
    /\ sat = <<>>
    /\ satPos = <<>>
    /\ lastOp = NoOp
    /\ pushed = <<>>
    /\ delivered = <<>>
    /\ evicted = 0
    /\ InitWorker

NextQueue ==
    \/ \E ty \in AlertTypes, tg \in Targets :
          AddAlert("S1", ty, tg, PreloadedAlerts + MaxAlerts)
          /\ ObsCall("add", <<>>, FALSE, <<>>)
          /\ UNCHANGED <<fireVars, queueVars>>
    \/ \E q \in QuotesOf({"S1"}) :
          CheckRead("poll", q) /\ ObsCall("read", <<>>, FALSE, <<>>)
          /\ UNCHANGED <<fireVars, queueVars>>
    \/ CheckCommit("poll") /\ ObsCall("commit", <<>>, FALSE, <<>>)
          /\ UNCHANGED <<fireVars, queueVars>>
    \/ CheckPush("poll") /\ ObsPushed(chk["poll"].newly)
          /\ ObsCall("check", <<>>, FALSE, chk["poll"].newly)
          /\ UNCHANGED fireVars
    \/ \E c \in BOOLEAN :
          GetRecentTriggers(c) /\ ObsDrained(c)
          /\ ObsCall("drain", <<>>, c, RecentTriggers)
          /\ UNCHANGED fireVars

SpecQueue == InitQueue /\ [][NextQueue]_vars

-----------------------------------------------------------------------------
(***************************************************************************)
(* SpecSession: the session manager as main.py runs it. The lifespan calls *)
(* start() once at startup; stop() is called at shutdown (lifespan and     *)
(* signal handler). The loop thread runs _worker_loop. Records the failed  *)
(* reconnect() calls in a row.                                             *)
(***************************************************************************)
InitSession == InitAlerts /\ InitWorker

\* The steps of a thread inside connect() and disconnect().
ConnectStep(t) ==
    \/ ConnectBegin(t)
    \/ Login(t)
    \/ WaitContracts(t)
    \/ ConnectOk(t)
    \/ ConnectExcept(t)
    \/ ConnectReturn(t)

DisconnectStep(t) ==
    \/ DisconnectBegin(t)
    \/ DisconnectExcept(t)
    \/ DisconnectFinally(t)

\* The steps of an iteration of _worker_loop after the check of the time,
\* outside connect() and disconnect() and but for the return of reconnect().
LoopBody(t) ==
    \/ LoopWake(t)
    \/ LoopCheckConnected(t)
    \/ LoopWork(t)
    \/ ReconnectDelay(t)
    \/ ReconnectLoad(t)
    \/ ReconnectStore(t)
    \/ ReconnectCheck(t)
    \/ ReconnectSleep(t)

\* The steps of a loop thread outside connect() and disconnect(), but for
\* the return of reconnect().
LoopStep(t) ==
    \/ LoopTop(t)
    \/ LoopBody(t)

NextSession ==
    \/ thread = {} /\ StartCall /\ UNCHANGED <<outsideWorker, fails, phase>>
    \/ \E n \in LoopThreads : StartRun(n) /\ UNCHANGED <<outsideWorker, fails, phase>>
    \/ thread # {} /\ StopCall /\ UNCHANGED <<outsideWorker, fails, phase>>
    \/ StopJoin /\ UNCHANGED <<outsideWorker, fails, phase>>
    \/ StopReturn /\ UNCHANGED <<outsideWorker, fails, phase>>
    \/ \E t \in Threads : ConnectStep(t) /\ UNCHANGED <<outsideWorker, fails, phase>>
    \/ \E t \in Threads : DisconnectStep(t) /\ UNCHANGED <<outsideWorker, fails, phase>>
    \/ \E t \in LoopThreads : LoopStep(t) /\ UNCHANGED <<outsideWorker, fails, phase>>
    \/ \E t \in LoopThreads :
          ReconnectReturn(t) /\ ObsReconnected(t) /\ UNCHANGED <<outsideWorker, phase>>

SpecSession == InitSession /\ [][NextSession]_vars

(***************************************************************************)
(* SpecSessionFair: SpecSession where every thread goes on running: a      *)
(* thread that can take a step takes one, and a thread waiting for         *)
(* self._lock gets it when it is released again and again.                 *)
(***************************************************************************)
FairSession ==
    \A t \in Threads :
        /\ WF_vars(ConnectStep(t) /\ UNCHANGED <<outsideWorker, fails, phase>>)
        /\ SF_vars(ConnectBegin(t) /\ UNCHANGED <<outsideWorker, fails, phase>>)
        /\ WF_vars(DisconnectStep(t) /\ UNCHANGED <<outsideWorker, fails, phase>>)

SpecSessionFair == InitSession /\ [][NextSession]_vars /\ FairSession

(***************************************************************************)
(* SpecLoop: SpecSession with the wall clock: the time enters and leaves   *)
(* the trading sessions at any moment, and is_trading_time() gives what    *)
(* the clock says when the loop thread calls it.                           *)
(***************************************************************************)
InitLoop == InitAlerts /\ InitWorker

\* The time of day crosses a boundary of a TRADING_SESSIONS window.
Tick ==
    /\ in_session' = ~in_session
    /\ UNCHANGED <<alertVars, workerVars, cacheVars, accessVars, tickVars, jobVars, genVars, tod>>

outsideLoop == <<outsideWorker, fails, phase>>

NextLoop ==
    \/ thread = {} /\ StartCall /\ UNCHANGED outsideLoop
    \/ \E n \in LoopThreads : StartRun(n) /\ UNCHANGED outsideLoop
    \/ thread # {} /\ StopCall /\ UNCHANGED outsideLoop
    \/ StopJoin /\ UNCHANGED outsideLoop
    \/ StopReturn /\ UNCHANGED outsideLoop
    \/ \E t \in Threads : ConnectStep(t) /\ UNCHANGED outsideLoop
    \/ \E t \in Threads : DisconnectStep(t) /\ UNCHANGED outsideLoop
    \/ \E t \in LoopThreads : LoopTopAt(t, in_session) /\ UNCHANGED outsideLoop
    \/ \E t \in LoopThreads : LoopBody(t) /\ UNCHANGED outsideLoop
    \/ \E t \in LoopThreads :
          ReconnectReturn(t) /\ ObsReconnected(t) /\ UNCHANGED <<outsideWorker, phase>>
    \/ Tick

SpecLoop == InitLoop /\ [][NextLoop]_vars

(***************************************************************************)
(* SpecLoopFair: SpecLoop where every thread goes on running and a thread  *)
(* waiting for self._lock gets it when it is released again and again.     *)
(***************************************************************************)
FairLoop ==
    /\ \A t \in Threads :
          /\ WF_vars(ConnectStep(t) /\ UNCHANGED outsideLoop)
          /\ SF_vars(ConnectBegin(t) /\ UNCHANGED outsideLoop)
          /\ WF_vars(DisconnectStep(t) /\ UNCHANGED outsideLoop)
          /\ SF_vars(DisconnectBegin(t) /\ UNCHANGED outsideLoop)
    /\ \A t \in LoopThreads :
          /\ WF_vars(LoopTopAt(t, in_session) /\ UNCHANGED outsideLoop)
          /\ WF_vars(LoopBody(t) /\ UNCHANGED outsideLoop)
          /\ WF_vars(ReconnectReturn(t) /\ ObsReconnected(t)
                     /\ UNCHANGED <<outsideWorker, phase>>)

SpecLoopFair == InitLoop /\ [][NextLoop]_vars /\ FairLoop

(***************************************************************************)
(* SpecJobs: one scheduled job over the days: the process boots at any     *)
(* time of the day, the clock goes on, the cron trigger fires, the         *)
(* catch-up thread and the HTTP handler run next to it. Records the        *)
(* executions of the body per day and the last call that ended.            *)
(***************************************************************************)
InitJobs ==
    /\ InitAlerts
    /\ api = "none"
    /\ is_connected = FALSE
    /\ InitWorkerRest
    /\ \E j \in Jobs : InitJob(j)

NextJobs ==
    \/ Boot /\ UNCHANGED <<outsideJobs, jobObs>>
    \/ Wire /\ UNCHANGED <<outsideJobs, jobObs>>
    \/ AdvanceTime /\ UNCHANGED <<outsideJobs, jobObs>>
    \/ NextDay /\ ObsNextDay /\ UNCHANGED outsideJobs
    \/ ManualCall /\ UNCHANGED <<outsideJobs, jobObs>>
    \/ \E e \in Executors : TaskStart(e) /\ ObsTaskStart(e) /\ UNCHANGED outsideJobs
    \/ \E e \in Executors, outcome \in {"returned", "raised", "nodata", "failed"} :
          TaskEnd(e, outcome) /\ ObsTaskEnd(e, outcome) /\ UNCHANGED outsideJobs

SpecJobs == InitJobs /\ [][NextJobs]_vars

(***************************************************************************)
(* SpecHook: the wrappers main.py binds the attributes scheduled_fetch and *)
(* scheduled_daily_review to, called by firings that look the attribute up *)
(* when they fire, over the days. Records each call and each hook.         *)
(***************************************************************************)
InitHook ==
    /\ InitAlerts
    /\ api = "none"
    /\ is_connected = FALSE
    /\ InitWorkerRest
    /\ \E j \in HookedJobs : InitJob(j)

NextHook ==
    \/ Boot /\ UNCHANGED <<outsideJobs, jobObs>>
    \/ Wire /\ UNCHANGED <<outsideJobs, jobObs>>
    \/ AdvanceTime /\ UNCHANGED <<outsideJobs, jobObs>>
    \/ NextDay /\ ObsNextDay /\ UNCHANGED outsideJobs
    \/ bodyRuns < MaxFirings /\ AttrFiring /\ UNCHANGED <<outsideJobs, jobObs>>
    \/ \E e \in Scheduled : TaskStart(e) /\ ObsTaskStart(e) /\ UNCHANGED outsideJobs
    \/ \E e \in Scheduled, outcome \in {"returned", "raised", "failed"} :
          TaskEnd(e, outcome) /\ ObsTaskEnd(e, outcome) /\ UNCHANGED outsideJobs
    \/ \E e \in Scheduled, result \in {"sent", "quiet", "raised"} :
          HookEnd(e, result) /\ ObsHookEnd(e, result) /\ UNCHANGED outsideJobs

SpecHook == InitHook /\ [][NextHook]_vars

(***************************************************************************)
(* SpecClock: is_trading_time() is called at any minute of the day.        *)
(***************************************************************************)
\* dt_time(h, m), in minutes since midnight
Minutes(h, m) == h * 60 + m

\* The times of the day at which the clock is read: the whole minutes.
TimesOfDay == 0..(Minutes(24, 0) - 1)

\* config.TRADING_SESSIONS
TRADING_SESSIONS ==
    [pre_market |-> <<Minutes(8, 30), Minutes(9, 0)>>,
     market |-> <<Minutes(9, 0), Minutes(13, 30)>>,
     after_hours |-> <<Minutes(13, 40), Minutes(14, 30)>>]

\* dt_time(h1, m1) <= now <= dt_time(h2, m2)
InWindow(w, now) == w[1] <= now /\ now <= w[2]

\* is_trading_time(): some session has the time in its window.
IsTradingTime(now) ==
    \E name \in DOMAIN TRADING_SESSIONS : InWindow(TRADING_SESSIONS[name], now)

\* is_trading_time() is called when the time of the day is now.
ReadClock(now) ==
    /\ tod' = now
    /\ in_session' = IsTradingTime(now)
    /\ UNCHANGED <<alertVars, workerVars, cacheVars, accessVars, tickVars, jobVars, genVars>>

InitClock == InitAlerts /\ InitWorker

NextClock == \E now \in TimesOfDay : ReadClock(now)

SpecClock == InitClock /\ [][NextClock]_vars

(***************************************************************************)
(* SpecBoot: the start() of the institutional worker or of the AI analyzer *)
(* at any time of the day, on a day the job has not run.                   *)
(***************************************************************************)
\* scheduler.add_job(..., trigger="cron", hour=18, minute=5) and
\* (..., hour=18, minute=15)
TriggerTime(j) == IF j = "inst" THEN Minutes(18, 5) ELSE Minutes(18, 15)

\* The test of start() on the time now = datetime.now():
\* now.hour >= 18 (institutional), now.hour >= 18 and now.minute >= 15 (AI)
CatchUpAt(j, hour, minute) ==
    IF j = "inst" THEN hour >= 18 ELSE hour >= 18 /\ minute >= 15

\* start() at hour:minute: the cron job is added with the function the
\* attribute is bound to, and the catch-up thread is started if the test on
\* the time holds and the last-run date is not today.
StartAt(hour, minute) ==
    /\ boot = "down"
    /\ boot' = "started"
    /\ registered' = attr
    /\ tod' = Minutes(hour, minute)
    /\ task' = IF CatchUpAt(job, hour, minute) /\ last_run # day
               THEN [task EXCEPT !["catchup"] = [pc |-> "called", target |-> attr]]
               ELSE task
    /\ UNCHANGED <<job, day, slot, attr, last_run, job_status>>

NextBoot ==
    \E hour \in 0..23, minute \in 0..59 :
        StartAt(hour, minute)
        /\ UNCHANGED <<tickVars, alertVars, workerVars, cacheVars, accessVars,
                       genVars, in_session, jobObs>>

SpecBoot == InitHook /\ [][NextBoot]_vars

(***************************************************************************)
(* SpecGenerate: generate(prompt) called again and again, the provider     *)
(* answering or raising at each attempt.                                   *)
(***************************************************************************)
SpecGenerate == InitClock /\ [][NextGenerate]_vars

(***************************************************************************)
(* SpecRestart: start() and stop() called by the main thread in any order, *)
(* as an operator restarting the worker does. Records whether a start()   *)
(* began with the session Failed.                                          *)
(***************************************************************************)
InitRestart == InitAlerts /\ InitWorker

NextRestart ==
    \/ (is_running \/ \E n \in LoopThreads : pc[n] = "unborn")
          /\ StartCall /\ ObsStartCalled /\ UNCHANGED <<outsideWorker, fails>>
    \/ \E n \in LoopThreads : StartRun(n) /\ ObsStarted /\ UNCHANGED <<outsideWorker, fails>>
    \/ StopCall /\ UNCHANGED <<outsideWorker, fails, phase>>
    \/ StopJoin /\ UNCHANGED <<outsideWorker, fails, phase>>
    \/ StopReturn /\ UNCHANGED <<outsideWorker, fails, phase>>
    \/ \E t \in Threads : Connect(t) /\ UNCHANGED <<outsideWorker, fails, phase>>
    \/ \E t \in Threads : Disconnect(t) /\ UNCHANGED <<outsideWorker, fails, phase>>
    \/ \E t \in LoopThreads : LoopStep(t) /\ UNCHANGED <<outsideWorker, fails, phase>>
    \/ \E t \in LoopThreads :
          ReconnectReturn(t) /\ UNCHANGED <<outsideWorker, fails, phase>>

SpecRestart == InitRestart /\ [][NextRestart]_vars

\* get_cache(): return dict(self.cache), a new dict with the same values.
CacheCopy == [map |-> cache, one |-> {}]

GetCache ==
    /\ held' = CacheCopy
    /\ UNCHANGED <<cache, heap, nextRef, outsideCache>>

\* get_stock_cache(stock_id): return self.cache.get(stock_id)
CacheEntry(sid) ==
    [map |-> <<>>, one |-> IF sid \in DOMAIN cache THEN {cache[sid]} ELSE {}]

GetStockCache(sid) ==
    /\ held' = CacheEntry(sid)
    /\ UNCHANGED <<cache, heap, nextRef, outsideCache>>

\* The snapshot dicts the caller can reach through what it holds.
HeldRefs == held.one \cup {held.map[sid] : sid \in DOMAIN held.map}

\* The caller deletes a key of the dict get_cache() returned.
CallerDeletesKey(sid) ==
    /\ sid \in DOMAIN held.map
    /\ held' = [held EXCEPT !.map = [x \in DOMAIN held.map \ {sid} |-> held.map[x]]]
    /\ UNCHANGED <<cache, heap, nextRef, outsideCache>>

\* The caller assigns to a field of a snapshot dict it got.
CallerSetsPrice(ref, price) ==
    /\ ref \in HeldRefs
    /\ heap[ref].price # price
    /\ heap' = [heap EXCEPT ![ref].price = price]
    /\ UNCHANGED <<cache, nextRef, held, outsideCache>>

\* What a read of the cache returns: symbol -> content of its snapshot.
CacheView == [sid \in DOMAIN cache |-> heap[cache[sid]]]

\* ---- observers of the quote cache ----
FetchStatus(connected, valid_ids, failAt) ==
    IF ~connected THEN "offline"
    ELSE IF valid_ids = <<>> THEN "empty"
    ELSE IF failAt = 0 THEN "failed"
    ELSE IF failAt <= Len(valid_ids) THEN "broken"
    ELSE "ok"

\* fetch_snapshots was called: the ids asked for, the ids that resolved, the
\* price of each of these at the exchange, how the call went and the map it returned (with the content the
\* dicts have at the return).
ObsFetched(ids, res, market, failAt) ==
    LET connected == is_connected /\ api # "none"
        valid_ids == ValidIds(ids, res)
        ret == FetchReturn(connected, ids, res, failAt)
    IN /\ lastFetch' = [status |-> FetchStatus(connected, valid_ids, failAt),
                        resolved |-> {valid_ids[i] : i \in DOMAIN valid_ids},
                        requested |-> {ids[i] : i \in DOMAIN ids},
                        market |-> [sid \in {valid_ids[i] : i \in DOMAIN valid_ids}
                                       |-> market[sid]],
                        ret |-> [sid \in DOMAIN ret |-> heap'[ret[sid]]]]
       /\ lastCacheOp' = "fetch"

ObsCacheOp(op) == lastCacheOp' = op /\ UNCHANGED lastFetch

-----------------------------------------------------------------------------
(***************************************************************************)
(* SpecFetch: fetch_snapshots is called one call after another (by the     *)
(* polling loop, or by POST /api/stock/refresh) with the session connected *)
(* or not; the HTTP handlers read the cache and a caller changes what it   *)
(* got. Records each fetch.                                                *)
(***************************************************************************)
\* The session as start() leaves it: connected, or not when the login failed.
InitFetch ==
    /\ InitAlerts
    /\ InitWorkerRest
    /\ InitJob("inst")
    /\ \E ok \in BOOLEAN :
          /\ is_connected = ok
          /\ api = IF ok THEN "in" ELSE "new"

\* The price a caller writes into a snapshot it got.
CallerPrice == 0

NextFetch ==
    \/ \E ids \in FetchIds, res \in Resolutions, market \in Markets,
          failAt \in 0..(Cardinality(Symbols) + 1) :
          FetchSnapshots(ids, res, market, failAt)
          /\ ObsFetched(ids, res, market, failAt)
    \/ GetCache /\ ObsCacheOp("get_cache")
    \/ \E sid \in Symbols : GetStockCache(sid) /\ ObsCacheOp("get_stock_cache")
    \/ \E sid \in Symbols : CallerDeletesKey(sid) /\ ObsCacheOp("caller")
    \/ \E ref \in HeldRefs : CallerSetsPrice(ref, CallerPrice) /\ ObsCacheOp("caller")

SpecFetch == InitFetch /\ [][NextFetch]_vars

-----------------------------------------------------------------------------
(***************************************************************************)
(* The accesses to self.cache and self.last_update, one at a time: the     *)
(* polling thread runs fetch_snapshots, the event-loop thread serves the   *)
(* HTTP handlers of routes_stock.py and routes_ai.py. A lock is taken in   *)
(* one step and the access under it is made, and the lock released, in     *)
(* the next.                                                               *)
(***************************************************************************)
\* fetch_snapshots up to the return of api.snapshots: the snapshots that
\* will be written, taken at the source at the time srcTime + 1. Called by
\* _worker_loop in the polling thread and by force_refresh in the
\* event-loop thread.
AccFetchBegin(t, ids, res, market, failAt) ==
    /\ acc[t].pc = "idle"
    /\ srcTime < MaxObtains
    /\ LET connected == is_connected /\ api # "none"
           valid_ids == ValidIds(ids, res)
           snaps == Snapshots(valid_ids, market)
           w == Written(connected, valid_ids, failAt)
       IN /\ w > 0
          /\ acc' = [acc EXCEPT ![t] =
                       [kind |-> "fetch", pc |-> "want",
                        todo |-> [k \in 1..w |->
                                    [field |-> PairedId(valid_ids, k),
                                     data |-> SnapshotData(PairedId(valid_ids, k), snaps[k])]],
                        at |-> srcTime + 1]]
          /\ srcTime' = srcTime + 1
    /\ UNCHANGED <<cache, heap, nextRef, held, last_update, lock>>

\* The event-loop thread begins to serve a handler that reads.
AccHandlerBegin(handler) ==
    /\ acc[MainThread].pc = "idle"
    /\ Reads(handler) # <<>>
    /\ acc' = [acc EXCEPT ![MainThread] =
                 [kind |-> handler,
                  pc |-> IF Head(Reads(handler)).locks THEN "want" ELSE "go",
                  todo |-> Reads(handler), at |-> 0]]
    /\ UNCHANGED <<cache, heap, nextRef, held, last_update, srcTime, lock>>

\* with self._lock:
AccLock(t) ==
    /\ acc[t].pc = "want"
    /\ lock = {}
    /\ lock' = {t}
    /\ acc' = [acc EXCEPT ![t].pc = "go"]
    /\ UNCHANGED <<cache, heap, nextRef, held, last_update, srcTime>>

\* Where the operation goes on after its first access is made.
OpAfter(o) ==
    IF Len(o.todo) = 1 THEN IdleOp
    ELSE [o EXCEPT !.todo = Tail(o.todo),
                   !.pc = IF o.kind = "fetch" \/ o.todo[2].locks
                          THEN "want" ELSE "go"]

\* self.cache[sid] = data; self.last_update = datetime.now(), and the lock
\* is released.
AccWrite(t) ==
    /\ acc[t].pc = "go"
    /\ acc[t].kind = "fetch"
    /\ nextRef <= MaxSnapshots
    /\ heap' = (nextRef :> Head(acc[t].todo).data) @@ heap
    /\ cache' = PutCache(cache, Head(acc[t].todo).field, nextRef)
    /\ nextRef' = nextRef + 1
    /\ last_update' = srcTime
    /\ lock' = lock \ {t}
    /\ acc' = [acc EXCEPT ![t] = OpAfter(acc[t])]
    /\ UNCHANGED <<held, srcTime>>

\* A handler reads the cache or last_update; a lock it holds is released.
AccRead(t, sid) ==
    /\ acc[t].pc = "go"
    /\ acc[t].kind # "fetch"
    /\ held' = CASE acc[t].kind = "quotes" /\ Head(acc[t].todo).field = "cache"
                      -> CacheCopy
                 [] acc[t].kind = "quote" -> CacheEntry(sid)
                 [] OTHER -> held
    /\ lock' = lock \ {t}
    /\ acc' = [acc EXCEPT ![t] = OpAfter(acc[t])]
    /\ UNCHANGED <<cache, heap, nextRef, last_update, srcTime>>

\* ---- observers of the accesses ----
\* An access is made: by whom, to what, and whether the thread holds
\* self._lock as it makes it.
ObsAccess(t, kind) ==
    /\ lastAccess' = [by |-> t,
                      field |-> IF kind = "write" THEN "cache"
                                ELSE Head(acc[t].todo).field,
                      kind |-> kind, locked |-> t \in lock]
    /\ cacheSeq' = IF kind = "write"
                   THEN [cacheSeq EXCEPT ![Head(acc[t].todo).field] = acc[t].at]
                   ELSE cacheSeq

(***************************************************************************)
(* SpecAccess: the polling thread fetches and the event-loop thread serves *)
(* its handlers, step by step. Records each access and, per symbol, the    *)
(* time at the source of the snapshot the cache has.                       *)
(***************************************************************************)
InitCacheAccess == InitFetch

NextAccess ==
    \/ \E ids \in FetchIds, res \in Resolutions, market \in Markets,
          failAt \in 0..(Cardinality(Symbols) + 1) :
          AccFetchBegin(PollThread, ids, res, market, failAt)
          /\ UNCHANGED <<outsideAccess, lastAccess, cacheSeq>>
    \/ \E ids \in FetchIds, res \in Resolutions, market \in Markets,
          failAt \in 0..(Cardinality(Symbols) + 1) :
          AccFetchBegin(MainThread, ids, res, market, failAt)
          /\ UNCHANGED <<outsideAccess, lastAccess, cacheSeq>>
    \/ \E handler \in Handlers :
          AccHandlerBegin(handler) /\ UNCHANGED <<outsideAccess, lastAccess, cacheSeq>>
    \/ \E t \in AccThreads : AccLock(t) /\ UNCHANGED <<outsideAccess, lastAccess, cacheSeq>>
    \/ \E t \in AccThreads : AccWrite(t) /\ ObsAccess(t, "write") /\ UNCHANGED outsideAccess
    \/ \E t \in AccThreads, sid \in Symbols :
          AccRead(t, sid) /\ ObsAccess(t, "read") /\ UNCHANGED outsideAccess

SpecAccess == InitCacheAccess /\ [][NextAccess]_vars

-----------------------------------------------------------------------------
(***************************************************************************)
(* One iteration of _worker_loop after the connection check, statement by  *)
(* statement: get_watchlist(), self.fetch_snapshots (which main.py has     *)
(* replaced by fetch_with_alerts: the original fetch, then check_alerts),  *)
(* the save counter and save_snapshots_to_db().                            *)
(***************************************************************************)
\* The watchlists get_watchlist() gives.
Watchlists == {<<>>, <<"S1">>, <<"S1", "S2">>}

\* Every symbol of the watchlist is listed: the lookup gives a contract.
Listed == [sid \in Symbols |-> "contract"]

\* The prices at the exchange when the loop fetches: one price for all.
TickMarkets == {market \in Markets : \A a, b \in Symbols : market[a] = market[b]}

FlushEvery == 4

\* The exception goes to the except branch of the loop: reconnect().
ToExcept(t) ==
    /\ retry_count < RetryCap
    /\ loc' = [loc EXCEPT ![t].site = "except"]
    /\ Goto(t, "disconnect")

\* time.sleep(nap) at the end of the iteration
ToSleep(t, nap) ==
    /\ loc' = [loc EXCEPT ![t].nap = nap]
    /\ Goto(t, "sleep")

\* watchlist = get_watchlist(); stock_ids = [...]; if not stock_ids: sleep
TickLoad(t) ==
    /\ pc[t] = "work"
    /\ \E raises \in BOOLEAN, ids \in Watchlists :
          IF raises THEN ToExcept(t) /\ UNCHANGED stock_ids
          ELSE /\ stock_ids' = ids
               /\ IF ids = <<>> THEN ToSleep(t, EmptyWatchlistSleep)
                  ELSE Goto(t, "fetch") /\ UNCHANGED loc
    /\ UNCHANGED <<api, is_connected, is_running, thread, lock, retry_count,
                   logouts, results, save_counter, snapshots_db,
                   alerts, nextId, triggered_alerts, chk, cache, heap, nextRef>>

\* results = _original_fetch(stock_ids): the fetch_snapshots of the class,
\* from start to end
TickFetch(t, market, failAt) ==
    /\ pc[t] = "fetch"
    /\ FetchEffect(TickSnapshots, stock_ids, Listed, market, failAt)
    /\ results' = FetchReturn(is_connected /\ api # "none", stock_ids, Listed, failAt)
    /\ Goto(t, "hook")
    /\ UNCHANGED <<api, is_connected, is_running, thread, lock, retry_count,
                   logouts, loc, stock_ids, save_counter, snapshots_db,
                   alerts, nextId, triggered_alerts, chk>>

\* Mutant of HookQuotes: check_alerts is given the whole cache.
HookQuotes_WholeCache(r, c, h) == [sid \in DOMAIN c |-> h[c[sid]].price]

\* The quotes check_alerts reads in the results it is given.
HookQuotes(r, c, h) == [sid \in DOMAIN r |-> h[r[sid]].price]

\* if results: triggered = alert_manager.check_alerts(results); return
\* results. An exception of check_alerts (or of the Telegram push) leaves
\* fetch_with_alerts and reaches the except branch of the loop.
TickHook(t) ==
    /\ pc[t] = "hook"
    /\ \E raises \in BOOLEAN :
          IF results = <<>>
          THEN /\ ~raises
               /\ Goto(t, "count")
               /\ UNCHANGED <<loc, alerts, triggered_alerts>>
          ELSE IF raises
          THEN /\ ToExcept(t)
               /\ UNCHANGED <<alerts, triggered_alerts>>
          ELSE /\ CheckEffect(HookQuotes(results, cache, heap))
               /\ Goto(t, "count")
               /\ UNCHANGED loc
    /\ UNCHANGED <<api, is_connected, is_running, thread, lock, retry_count,
                   logouts, stock_ids, results, save_counter, snapshots_db,
                   nextId, chk, cache, heap, nextRef>>

\* Mutant of CountTick: every fetch counts.
CountTick_Always(r, counter) == counter + 1

\* if results: save_counter += 1
CountTick(r, counter) == IF r # <<>> THEN counter + 1 ELSE counter

\* if save_counter >= 4
FlushDue(counter) == counter >= FlushEvery

\* if results: save_counter += 1; if save_counter >= 4: ... ; else
\* time.sleep(15)
TickCount(t) ==
    /\ pc[t] = "count"
    /\ save_counter' = CountTick(results, save_counter)
    /\ IF results # <<>> /\ FlushDue(save_counter')
       THEN Goto(t, "flush") /\ UNCHANGED loc
       ELSE ToSleep(t, PollSleep)
    /\ UNCHANGED <<api, is_connected, is_running, thread, lock, retry_count,
                   logouts, stock_ids, results, snapshots_db,
                   alerts, nextId, triggered_alerts, chk, cache, heap, nextRef>>

\* Mutant of Saved: the first save_snapshot that fails ends the flush.
Saved_NoneAfterFailure(r, failing) ==
    IF failing = {} THEN {r[sid] : sid \in DOMAIN r} ELSE {}

\* for sid, data in results.items(): try: save_snapshot(...) except: print
\* The dicts that get saved when save_snapshot raises for the symbols failing.
Saved(r, failing) == {r[sid] : sid \in DOMAIN r \ failing}

\* self.save_snapshots_to_db(results); save_counter = 0; time.sleep(15)
TickFlush(t, failing) ==
    /\ pc[t] = "flush"
    /\ snapshots_db' = snapshots_db \cup Saved(results, failing)
    /\ save_counter' = 0
    /\ ToSleep(t, PollSleep)
    /\ UNCHANGED <<api, is_connected, is_running, thread, lock, retry_count,
                   logouts, stock_ids, results,
                   alerts, nextId, triggered_alerts, chk, cache, heap, nextRef>>

\* ---- observers of the iterations ----
\* The loop has called fetch_snapshots.
ObsTickFetch(failAt) ==
    /\ UNCHANGED rounds
    /\ ticks' = ticks + 1
    /\ UNCHANGED okTicks
    /\ tickLog' = [NoTick EXCEPT !.n = ticks + 1, !.ok = results' # <<>>]
    /\ afterFailure' =
          (FetchStatus(is_connected /\ api # "none", stock_ids, failAt)
              \in {"failed", "broken"})

\* check_alerts was called with quotes, or was not called.
ObsTickHook ==
    /\ tickLog' = IF results # <<>> /\ pc'[PollThread] = "count"
                  THEN [tickLog EXCEPT !.hooked = TRUE,
                                       !.checked = HookQuotes(results, cache, heap)]
                  ELSE tickLog
    /\ okTicks' = IF results # <<>> /\ pc'[PollThread] = "count"
                  THEN okTicks + 1 ELSE okTicks
    /\ afterFailure' = (afterFailure /\ pc'[PollThread] = "count")
    /\ UNCHANGED <<rounds, ticks>>

\* save_snapshots_to_db was called and printed the symbols failing.
ObsTickFlush(failing) ==
    /\ tickLog' = [tickLog EXCEPT !.flushed = TRUE, !.failed = failing]
    /\ UNCHANGED <<rounds, ticks, okTicks, afterFailure>>

\* The loop calls reconnect(), or goes on to the next statement.
ObsTickStep ==
    /\ afterFailure' = (afterFailure /\ pc'[PollThread] # "disconnect")
    /\ UNCHANGED <<rounds, ticks, okTicks, tickLog>>

\* An iteration of the loop begins.
ObsTickTop ==
    /\ rounds < MaxTicks
    /\ rounds' = rounds + 1
    /\ UNCHANGED <<ticks, okTicks, tickLog, afterFailure>>

(***************************************************************************)
(* SpecTick: the polling loop of the one thread start() made, with the     *)
(* alert hook wired, iteration after iteration. Records each fetch of the  *)
(* loop and what followed it.                                              *)
(***************************************************************************)
\* stock_alerts has one row, stored by an earlier run of the process.
InitTicks ==
    /\ \E s \in Symbols, ty \in AlertTypes :
          alerts = (1 :> NewRow(s, ty, TargetPrice))
    /\ nextId = 2
    /\ triggered_alerts = <<>>
    /\ chk = [c \in Checkers |-> IdleChk]
    /\ fireCount = <<>>
    /\ sat = <<>>
    /\ satPos = <<>>
    /\ lastOp = NoOp
    /\ pushed = <<>>
    /\ delivered = <<>>
    /\ evicted = 0
    /\ InitWorker

outsideTickRest == <<clockVars, accessVars, jobVars, genVars, fails, phase,
                     fireCount, sat, satPos, lastOp, pushed, delivered, evicted>>
sessionOnly == <<alerts, nextId, triggered_alerts, chk, cacheVars, tickProg,
                 outsideTickRest>>

\* The steps of the loop thread outside connect(), disconnect() and the work
\* of the iteration, but for the return of reconnect().
LoopStepOutsideWork(t) ==
    \/ LoopWake(t)
    \/ LoopCheckConnected(t)
    \/ ReconnectDelay(t)
    \/ ReconnectLoad(t)
    \/ ReconnectStore(t)
    \/ ReconnectCheck(t)
    \/ ReconnectSleep(t)

NextTick ==
    \/ thread = {} /\ StartCall /\ ObsTickStep /\ UNCHANGED sessionOnly
    \/ StartRun(PollThread) /\ ObsTickStep /\ UNCHANGED sessionOnly
    \/ \E t \in {MainThread, PollThread} :
          Connect(t) /\ ObsTickStep /\ UNCHANGED sessionOnly
    \/ Disconnect(PollThread) /\ ObsTickStep /\ UNCHANGED sessionOnly
    \/ LoopTop(PollThread) /\ ObsTickTop /\ UNCHANGED sessionOnly
    \/ LoopStepOutsideWork(PollThread) /\ ObsTickStep /\ UNCHANGED sessionOnly
    \/ ReconnectReturn(PollThread) /\ ObsTickStep /\ UNCHANGED sessionOnly
    \/ TickLoad(PollThread) /\ ObsTickStep
          /\ UNCHANGED <<held, lastFetch, lastCacheOp, outsideTickRest>>
    \/ \E market \in TickMarkets, failAt \in 0..(Cardinality(Symbols) + 1) :
          /\ failAt <= Len(stock_ids) + 1
          /\ TickFetch(PollThread, market, failAt) /\ ObsTickFetch(failAt)
          /\ UNCHANGED <<held, lastFetch, lastCacheOp, outsideTickRest>>
    \/ TickHook(PollThread) /\ ObsTickHook
          /\ UNCHANGED <<held, lastFetch, lastCacheOp, outsideTickRest>>
    \/ TickCount(PollThread) /\ ObsTickStep
          /\ UNCHANGED <<held, lastFetch, lastCacheOp, outsideTickRest>>
    \/ \E failing \in SUBSET Symbols :
          /\ failing \subseteq DOMAIN results
          /\ TickFlush(PollThread, failing) /\ ObsTickFlush(failing)
          /\ UNCHANGED <<held, lastFetch, lastCacheOp, outsideTickRest>>

SpecTick == InitTicks /\ [][NextTick]_vars



-----------------------------------------------------------------------------
(***************************************************************************)
(* Claims about check_alerts called one call after another.                *)
(***************************************************************************)
ActiveIds == {i \in DOMAIN alerts : alerts[i].is_triggered = 0}

EventsFor(evs, i) == {k \in 1..Len(evs) : evs[k].id = i}

\* The step is one whole check_alerts(q) call.
CheckCall(q) == lastOp'.op = "check" /\ lastOp'.quotes = q /\ CheckAlerts(q)

\* C2 as stated: over any sequence of check calls, each alert is returned by at
\* most one call, and that call is the first one whose quote meets the alert's
\* condition (above: price >= target, below: price <= target).
C2_OnceAtFirstConditionMet ==
    \A i \in DOMAIN fireCount :
        /\ fireCount[i] <= 1
        /\ (sat[i] # "never") <=> (fireCount[i] = 1)

\* C2 amended: each alert is returned by at most one call, and that call is the
\* first one whose quote has a positive price that meets the alert's condition.
C2_OnceAtFirstPositiveConditionMet ==
    \A i \in DOMAIN fireCount :
        /\ fireCount[i] <= 1
        /\ (satPos[i] # "never") <=> (fireCount[i] = 1)

\* C2 witness: a stored alert has fired in exactly one call although more than
\* one call quoted a positive price in its triggering range.
C2_Witness ==
    \E i \in DOMAIN alerts :
        /\ alerts[i].is_triggered = 1
        /\ fireCount[i] = 1
        /\ satPos[i] = "again"

\* C3 as stated: a check call fires an active alert if and only if the quote map
\* has an entry for its symbol whose price meets the condition, whatever the
\* price (the target itself and 0 included).
C3_FiresIffConditionMet ==
    [][\A q \in {lastOp'.quotes} : CheckCall(q) =>
          \A i \in ActiveIds :
              (i \in EventIds(lastOp'.ret)) <=> ConditionMet(alerts[i], q)]_vars

\* C3 amended: a check call fires an active alert if and only if the quote map
\* has an entry for its symbol whose price is positive and meets the condition.
C3_FiresIffPositiveConditionMet ==
    [][\A q \in {lastOp'.quotes} : CheckCall(q) =>
          \A i \in ActiveIds :
              (i \in EventIds(lastOp'.ret)) <=> ConditionMetPositive(alerts[i], q)]_vars

\* C3 witness: one call fired an alert at a price equal to its target and left
\* active a "below" alert whose symbol it quoted at price 0.
C3_Witness ==
    /\ lastOp.op = "check"
    /\ \E k \in 1..Len(lastOp.ret) :
          lastOp.ret[k].current_price = lastOp.ret[k].target_price
    /\ \E i \in ActiveIds :
          /\ alerts[i].alert_type = "below"
          /\ alerts[i].stock_id \in DOMAIN lastOp.quotes
          /\ lastOp.quotes[alerts[i].stock_id] = 0

\* C4: a check call in which no active alert's condition is met returns the
\* empty list and changes neither the store nor the queue; a call that fires an
\* alert returns exactly one event for it, carrying the quoted price, and the
\* alert is stored as triggered afterwards.
C4_CheckEffect ==
    [][\A q \in {lastOp'.quotes} : CheckCall(q) =>
          /\ (\A i \in ActiveIds : ~ConditionMet(alerts[i], q)) =>
                /\ lastOp'.ret = <<>>
                /\ UNCHANGED <<alerts, triggered_alerts>>
          /\ \A i \in EventIds(lastOp'.ret) :
                /\ i \in ActiveIds
                /\ Cardinality(EventsFor(lastOp'.ret, i)) = 1
                /\ \A k \in EventsFor(lastOp'.ret, i) :
                      lastOp'.ret[k].current_price = q[alerts[i].stock_id]
                /\ alerts'[i].is_triggered = 1]_vars

\* C4 witness: a "below" alert has just fired at a price under its target
\* (the 905-then-898 scenario's second check) and is stored as triggered.
C4_Witness ==
    /\ lastOp.op = "check"
    /\ Len(lastOp.ret) = 1
    /\ lastOp.ret[1].alert_type = "below"
    /\ lastOp.ret[1].current_price < lastOp.ret[1].target_price
    /\ lastOp.ret[1].id \in DOMAIN alerts
    /\ alerts[lastOp.ret[1].id].is_triggered = 1
    /\ triggered_alerts = lastOp.ret

-----------------------------------------------------------------------------
(***************************************************************************)
(* Claims about concurrent evaluations and about the trigger queue.        *)
(***************************************************************************)
\* C1 as stated: whatever the interleaving of the check_alerts calls of the
\* polling thread and of the HTTP handlers, each alert yields at most one
\* Trigger Event in total.
C1_AtMostOneEventPerAlert ==
    \A i \in DOMAIN fireCount : fireCount[i] <= 1

\* C5: the queue never holds more than 50 events, it is always the tail of the
\* sequence of events pushed so far, and a push that overflows leaves exactly
\* the 50 most recently pushed events, in push order.
C5_QueueBounded ==
    /\ [](/\ Len(triggered_alerts) <= QueueCap
          /\ triggered_alerts = LastN(pushed, Len(triggered_alerts)))
    /\ [][evicted' > evicted =>
             triggered_alerts' = LastN(pushed', QueueCap)]_vars

\* C5 witness: a push has overflowed the queue, which now holds 50 events.
C5_Witness ==
    /\ lastOp.op = "check"
    /\ evicted > 0
    /\ Len(triggered_alerts) = QueueCap
    /\ Len(pushed) > QueueCap

\* C6: get_recent_triggers returns the whole queue in order, empties it when
\* clear is true and leaves it unchanged when clear is false; whatever the
\* interleaving with check_alerts, the events returned by the clearing reads
\* followed by the events still queued are the pushed events in push order, each
\* once, less exactly the events dropped by the capacity trim.
C6_DrainExactlyOnce ==
    /\ [][lastOp'.op = "drain" =>
             /\ lastOp'.ret = triggered_alerts
             /\ triggered_alerts' =
                   IF lastOp'.clear THEN <<>> ELSE triggered_alerts]_vars
    /\ [](/\ IsSubseq(delivered \o triggered_alerts, pushed)
          /\ Len(pushed) = Len(delivered) + Len(triggered_alerts) + evicted)

\* C6 witness: after a capacity eviction, a clearing read has just returned
\* events while the polling thread is in the middle of a check_alerts call that
\* is about to push another event.
C6_Witness ==
    /\ lastOp.op = "drain"
    /\ lastOp.clear
    /\ lastOp.ret # <<>>
    /\ evicted > 0
    /\ chk["poll"].pc = "push"
    /\ chk["poll"].newly # <<>>

-----------------------------------------------------------------------------
\* Where a loop thread is between the sleep of reconnect() and the return of
\* the connect() that follows it.
ReconnectAttemptPcs == {"reconnect_sleep", "connect_ret"} \cup ConnectPcs

\* C7: after k-1 failed reconnect() calls in a row (k = 1..10) the next
\* reconnect() sleeps the k-th entry of 5,10,15,30,60,60,120,120,300,300 and
\* then calls connect(); after 10 failed calls in a row a reconnect() neither
\* sleeps nor calls connect() and returns False; after a successful one the
\* count of failures is 0 again, so the next delay is the first entry.
C7_BackoffThenFailed ==
    \A t \in LoopThreads :
        /\ pc[t] \in ReconnectAttemptPcs =>
              /\ fails < MaxRetry
              /\ loc[t].delay = RetryDelays[fails + 1]
        /\ pc[t] = "reconnect_ret" /\ fails >= MaxRetry => ~loc[t].ret

\* The reconnect() after ten failed ones has returned False.
C7_Witness ==
    /\ pc[1] = "reconnect_ret"
    /\ fails = MaxRetry
    /\ retry_count = MaxRetry + 1
    /\ ~loc[1].ret

\* C8 (as stated): a start() that begins with the session Failed (after a
\* stop()) leaves the attempt counter at 0 when it has started the loop
\* thread.
C8_RestartResetsCounter ==
    [][(pc[MainThread] = "start_run" /\ pc'[MainThread] = "idle"
          /\ phase = "failed") => retry_count' = 0]_vars

\* connect() has returned: no exception is on its way to the caller, the
\* result is a boolean, and after a failed login it is False with the
\* session not connected.
ConnectReturned(t) ==
    /\ ~loc[t].exc
    /\ loc[t].ret \in BOOLEAN
    /\ loc[t].login = "failed" => ~loc[t].ret /\ ~is_connected

\* C9: connect() sleeps at most ContractWaits times for the contracts; when
\* it returns it raises nothing and returns a boolean, False with the
\* session not connected after a failed login; and every connect() that is
\* called returns.
C9_ConnectTerminates ==
    /\ [](\A t \in Threads :
            /\ loc[t].i <= ContractWaits
            /\ pc[t] = "connect_ret" => ConnectReturned(t))
    /\ \A t \in Threads : (pc[t] = "connect") ~> (pc[t] = "connect_ret")

\* A connect() called by reconnect() has logged in, waited all ContractWaits
\* rounds for the contracts and returned True.
C9_Witness ==
    /\ pc[1] = "connect_ret"
    /\ loc[1].login = "ok"
    /\ loc[1].i = ContractWaits
    /\ loc[1].ret
    /\ is_connected

\* C10: a disconnect() that finds the session disconnected calls no logout,
\* raises nothing and leaves the session as it found it; every disconnect()
\* returns without an exception and with the session disconnected, also
\* when logout raised; no API object gets more than one logout.
C10_DisconnectIdempotent ==
    /\ [](logouts <= 1)
    /\ [][\A t \in Threads :
            /\ pc[t] = "disconnect" /\ pc'[t] # "disconnect" /\ ~is_connected =>
                  /\ pc'[t] = "disconnect_finally"
                  /\ ~loc'[t].exc
                  /\ UNCHANGED <<api, logouts, is_connected>>
            /\ pc[t] = "disconnect_finally" /\ pc'[t] # "disconnect_finally" =>
                  /\ ~is_connected'
                  /\ ~loc'[t].exc
                  /\ UNCHANGED <<api, logouts>>
                  /\ ~is_connected => UNCHANGED is_connected]_vars

\* The disconnect() of stop() has returned and the reconnect() of the loop
\* thread is inside its own disconnect(); the API object they share has had
\* one logout.
C10_Witness ==
    /\ pc[MainThread] = "stop_ret"
    /\ pc[1] = "disconnect_finally"
    /\ api = "out"
    /\ logouts = 1
    /\ ~is_connected

-----------------------------------------------------------------------------
(***************************************************************************)
(* Claims about fetch_snapshots and the quote cache.                       *)
(***************************************************************************)
\* C11: a fetch_snapshots call that is connected and gets its batch returns
\* a map whose keys are exactly the requested symbols that resolved to a
\* contract (a symbol whose lookup raised or gave nothing is left out and
\* the fetch goes on), and each snapshot is stored under the symbol it was
\* fetched for, with that symbol's price.
C11_KeysAreResolved ==
    lastFetch.status \in {"ok", "empty"} =>
        /\ DOMAIN lastFetch.ret = lastFetch.resolved
        /\ lastFetch.resolved \subseteq lastFetch.requested
        /\ \A sid \in DOMAIN lastFetch.ret :
              /\ lastFetch.ret[sid].stock_id = sid
              /\ lastFetch.ret[sid].price = lastFetch.market[sid]

\* A fetch asked for both symbols, the lookup of S1 gave no contract, and the
\* map returned has the snapshot of S2 only.
C11_Witness ==
    /\ lastFetch.status = "ok"
    /\ lastFetch.requested = Symbols
    /\ lastFetch.resolved = {"S2"}
    /\ DOMAIN lastFetch.ret = {"S2"}
    /\ lastFetch.ret["S2"].price = MaxFetchPrice

\* C12: a fetch whose batch request fails returns the empty map, and what
\* the caller gets from it differs from what it gets from a fetch that did
\* not fail.
C12_FailureDistinguishable ==
    /\ [](lastFetch.status = "failed" => lastFetch.ret = <<>>)
    /\ [][/\ lastCacheOp' = "fetch"
          /\ \/ lastFetch.status = "failed" /\ lastFetch'.status \in {"ok", "empty"}
             \/ lastFetch'.status = "failed" /\ lastFetch.status \in {"ok", "empty"}
          => lastFetch'.ret # lastFetch.ret]_vars

\* C13: the cache has one entry per symbol, and when a fetch returns, the
\* entry of every symbol it returned is the snapshot it returned, a dict
\* this fetch created; the entries of the other symbols are the ones the
\* cache had.
C13_CacheHoldsLatest ==
    [][lastCacheOp' = "fetch" =>
          /\ DOMAIN cache' \subseteq Symbols
          /\ \A sid \in DOMAIN lastFetch'.ret :
                /\ sid \in DOMAIN cache'
                /\ cache'[sid] >= nextRef
                /\ CacheView'[sid] = lastFetch'.ret[sid]
          /\ lastFetch'.status \in {"ok", "empty", "offline", "failed"} =>
                \A sid \in DOMAIN cache \ DOMAIN lastFetch'.ret :
                      sid \in DOMAIN cache' /\ cache'[sid] = cache[sid]]_vars

\* The cache had a snapshot of S1 at one price; a later fetch returned S1 at
\* another price and the cache has the new snapshot under a new reference.
C13_Witness ==
    /\ lastCacheOp = "fetch"
    /\ lastFetch.status = "ok"
    /\ "S1" \in DOMAIN lastFetch.ret
    /\ "S1" \in DOMAIN cache
    /\ cache["S1"] > 1
    /\ 1 \in DOMAIN heap
    /\ heap[1].stock_id = "S1"
    /\ heap[1].price # heap[cache["S1"]].price

\* C14: nothing a caller does to the map get_cache() returned or to a
\* snapshot get_cache() or get_stock_cache() returned changes what a later
\* read of the cache gives.
C14_DefensiveCopies ==
    [][lastCacheOp' = "caller" => CacheView' = CacheView]_vars

-----------------------------------------------------------------------------
(***************************************************************************)
(* Claims about _worker_loop.                                              *)
(***************************************************************************)
\* pc values at which a loop thread has just called reconnect() (which
\* starts with disconnect()), connect(), or the watchlist load and
\* fetch_snapshots.
CallPcs == {"disconnect", "connect", "work"}

\* C15 as stated: while the time is outside every trading session, no loop
\* thread calls reconnect, connect or fetch_snapshots.
C15_NoCallOutsideSessions ==
    [][\A t \in LoopThreads :
          ~in_session /\ pc'[t] # pc[t] => pc'[t] \notin CallPcs]_vars

\* C15: an iteration of the loop whose check of the time finds it outside
\* every trading session makes no session call and changes nothing of the
\* session: it sleeps 60 seconds, and the step after a sleep is the check
\* at the top of the loop.
C15_IdleIterationSleeps ==
    [][\A t \in LoopThreads :
          /\ pc[t] = "loop_top" /\ pc'[t] # "loop_top" /\ is_running /\ ~in_session =>
                /\ pc'[t] = "sleep"
                /\ loc'[t].nap = IdleSleep
                /\ UNCHANGED <<api, is_connected, retry_count, logouts, lock>>
          /\ pc[t] = "sleep" /\ pc'[t] # "sleep" => pc'[t] = "loop_top"]_vars

\* The loop thread sleeps its 60 seconds outside the trading sessions, with
\* the session disconnected and the flag still set.
C15_Witness ==
    /\ pc[1] = "sleep"
    /\ loc[1].nap = IdleSleep
    /\ ~in_session
    /\ is_running
    /\ ~is_connected
    /\ api = "new"

\* C20: a loop thread ends only when is_running is false; an exception is
\* pending in it only where connect() or disconnect() catch their own; and
\* after a failure in an iteration (the except branch of the loop) the
\* thread comes to the top of the loop again.
C20_LoopSurvives ==
    /\ [][\A t \in LoopThreads :
            pc'[t] = "done" /\ pc[t] # "done" => ~is_running]_vars
    /\ [](\A t \in LoopThreads :
            loc[t].exc => pc[t] \in {"connect_except", "disconnect_except"})
    /\ \A t \in LoopThreads :
          (loc[t].site = "except") ~> (pc[t] = "loop_top")

\* The reconnect() of the except branch has failed and the loop thread takes
\* the 120 second sleep before its next iteration, the flag still set.
C20_Witness ==
    /\ pc[1] = "sleep"
    /\ loc[1].nap = ExceptSleep
    /\ is_running
    /\ ~is_connected

-----------------------------------------------------------------------------
(***************************************************************************)
(* Claims about the scheduled jobs.                                        *)
(***************************************************************************)
\* C16: in one period the cron firings and the startup catch-up of a job
\* execute its body at most once, and a scheduled call that finds the
\* last-run date equal to today is skipped.
C16_AtMostOncePerPeriod ==
    /\ [](bodyRuns <= 1)
    /\ [][\A e \in Scheduled :
            task[e].pc = "called" /\ task'[e].pc # "called" /\ last_run = day
                => task'[e].pc = "idle"]_vars

\* C17: a call from the job's HTTP handler executes the body whatever the
\* last-run date is, and the body it began comes to its end in the handler.
C17_ManualAlwaysRuns ==
    [][/\ task["manual"].pc = "called" /\ task'["manual"].pc # "called"
            => task'["manual"].pc = "body"
       /\ task["manual"].pc = "body" /\ task'["manual"].pc # "body"
            => lastDone'.by = "manual" /\ lastDone'.outcome # "skipped"]_vars

\* The institutional fetch has run today by its schedule and the handler's
\* manual_fetch executes the body again.
C17_Witness ==
    /\ job = "inst"
    /\ last_run = day
    /\ bodyRuns = 1
    /\ task["manual"].pc = "body"

\* C18: when the body of a scheduled execution (institutional fetch, margin
\* fetch, AI review) raises, the status is an error and the last-run date
\* is as before; when it returns, the status is success and the last-run
\* date is today; with no execution in flight the status is not "fetching".
C18_OutcomeRecorded ==
    /\ [](job \in {"inst", "margin", "ai"} /\ (\A e \in Executors : task[e].pc = "idle")
            => job_status # "fetching")
    /\ [][\A e \in Scheduled :
            job \in {"inst", "margin", "ai"}
            /\ task[e].pc = "body" /\ task'[e].pc = "idle" =>
               IF lastDone'.outcome = "raised"
               THEN job_status' = "error" /\ last_run' = last_run
               ELSE job_status' = "success" /\ last_run' = day]_vars

\* C19: once main.py has wired the notifications, every scheduled execution
\* of the institutional fetch and of the AI review that ends is followed in
\* the same call by the notification.
C19_HookFollows ==
    [][\A e \in Scheduled :
          /\ job \in HookedJobs
          /\ boot = "wired"
          /\ task[e].pc = "body" /\ task'[e].pc = "idle"
          => lastDone'.hook]_vars

-----------------------------------------------------------------------------
(***************************************************************************)
(* Claims about stop(), the lock and the writers of the cache.             *)
(***************************************************************************)
\* stop() has returned and start() has not been called since.
Stopped == pc[MainThread] = "idle" /\ thread # {} /\ ~is_running

\* C21: stop() disconnects after the flag is cleared and the join is over;
\* once stop() has returned, the session is disconnected and stays so, and
\* the old loop thread calls neither connect() nor the watchlist load and
\* fetch_snapshots.
C21_StopQuiesces ==
    /\ [][pc'[MainThread] = "disconnect" /\ pc[MainThread] # "disconnect"
            => pc[MainThread] = "join" /\ ~is_running]_vars
    /\ [](Stopped => ~is_connected)
    /\ [][Stopped =>
            \A t \in LoopThreads :
                pc'[t] # pc[t] => pc'[t] \notin {"connect", "work"}]_vars

\* pc values at which a thread is about to make a network call (login) or
\* is in the wait for the contracts with its time.sleep(1).
BlockingPcs == {"login", "wait"}

\* C24: no thread holds self._lock, the mutex of the cache, while it makes
\* a network call or sleeps.
C24_LockHeldBriefly ==
    [](\A t \in Threads : t \in lock => pc[t] \notin BlockingPcs)

\* C28: a loop thread goes on to the watchlist load and fetch_snapshots
\* only from the check that found the session connected or from a
\* reconnect() that returned True; a reconnect() called at the check that
\* returned False is followed by the 60 second sleep and the next
\* iteration, with no load and no fetch.
C28_FetchAfterCheck ==
    [][\A t \in LoopThreads :
          /\ pc'[t] = "work" /\ pc[t] # "work" =>
                \/ pc[t] = "check_conn" /\ is_connected
                \/ pc[t] = "reconnect_ret" /\ loc[t].site = "check" /\ loc[t].ret
          /\ pc[t] = "check_conn" /\ pc'[t] # "check_conn" /\ ~is_connected =>
                pc'[t] = "disconnect" /\ loc'[t].site = "check"
          /\ pc[t] = "reconnect_ret" /\ pc'[t] # "reconnect_ret"
             /\ loc[t].site = "check" /\ ~loc[t].ret =>
                pc'[t] = "sleep" /\ loc'[t].nap = ReconnectFailSleep]_vars

\* The reconnect() called at the check has failed and the loop thread takes
\* its 60 second sleep with the session disconnected.
C28_Witness ==
    /\ pc[1] = "sleep"
    /\ loc[1].nap = ReconnectFailSleep
    /\ fails = 1
    /\ is_running
    /\ ~is_connected

\* C29: is_trading_time() is true exactly at the times t of the day with
\* start <= t < end for some session of TRADING_SESSIONS; at 13:30 and at
\* 14:30 it is false.
C29_HalfOpenWindows ==
    /\ in_session <=>
          \E name \in DOMAIN TRADING_SESSIONS :
              TRADING_SESSIONS[name][1] <= tod /\ tod < TRADING_SESSIONS[name][2]
    /\ tod \in {Minutes(13, 30), Minutes(14, 30)} => ~in_session

\* C22: every read and every write of the cache mapping and of its
\* last-updated timestamp, by the writer and by every reader path (the quote,
\* status and backtest handlers), is made by a thread that holds the cache
\* mutex.
C22_EveryAccessLocked == lastAccess.kind # "none" => lastAccess.locked

\* C23: the polling thread is the only writer of the cache, no HTTP handler
\* writes to it, and so for each symbol the cached snapshot is never replaced
\* by one obtained earlier at the exchange.
C23_SingleWriterInOrder ==
    /\ [](lastAccess.kind = "write" => lastAccess.by = PollThread)
    /\ [][\A sid \in Symbols : cacheSeq'[sid] >= cacheSeq[sid]]_vars

-----------------------------------------------------------------------------
(***************************************************************************)
(* Claims about one iteration of the polling loop.                         *)
(***************************************************************************)
\* C25: when a batch fetch of the active loop has failed with a network or
\* protocol error, the loop calls reconnect() before it calls
\* fetch_snapshots again.
C25_ReconnectBeforeNextFetch ==
    [][pc[PollThread] = "fetch" /\ pc'[PollThread] = "hook" => ~afterFailure]_vars

\* The quotes in a map of references, read in the dicts as they are now.
QuotesIn(r) == [sid \in DOMAIN r |-> heap[r[sid]].price]

\* The loop thread is past the hook of a fetch that returned snapshots.
PastHook == pc[PollThread] \in {"count", "flush"} /\ results # <<>>

\* C26: in an iteration with the alert hook wired, the cache has the
\* snapshot of every fetched symbol before check_alerts is called, and
\* check_alerts is given the snapshots this fetch returned, these and no
\* others; a fetch that returned nothing calls no check.
C26_CheckAfterWrites ==
    /\ pc[PollThread] = "hook" =>
          \A sid \in DOMAIN results : sid \in DOMAIN cache /\ cache[sid] = results[sid]
    /\ PastHook => tickLog.hooked /\ tickLog.checked = QuotesIn(results)
    /\ pc[PollThread] \in {"count", "flush"} /\ results = <<>> => ~tickLog.hooked

\* check_alerts was given fewer symbols than the cache has, and an alert fired.
C26_Witness ==
    /\ PastHook
    /\ DOMAIN results # DOMAIN cache
    /\ triggered_alerts # <<>>

\* The iteration is over and its fetch was made.
TickOver == pc[PollThread] = "sleep" /\ loc[PollThread].nap = PollSleep

C30_FlushFailureContained ==
    /\ [](TickOver /\ tickLog.flushed =>
            /\ tickLog.failed \subseteq DOMAIN results
            /\ \A sid \in DOMAIN results \ tickLog.failed :
                  results[sid] \in snapshots_db
            /\ \A sid \in DOMAIN results : cache[sid] = results[sid])
    /\ [][pc[PollThread] = "flush" /\ pc'[PollThread] # "flush"
            => pc'[PollThread] = "sleep" /\ loc'[PollThread].nap = PollSleep
               /\ save_counter' = 0]_vars

\* One of two symbols failed to save and the other was saved.
C30_Witness ==
    /\ TickOver /\ tickLog.flushed
    /\ Cardinality(tickLog.failed) = 1
    /\ Cardinality(DOMAIN results) = 2
    /\ \E sid \in DOMAIN results : results[sid] \in snapshots_db

-----------------------------------------------------------------------------
(***************************************************************************)
(* Claims about connect(), the second loop thread and the fetch that       *)
(* returns nothing.                                                        *)
(***************************************************************************)
\* C40: connect() returns True and sets is_connected only if one of its 20
\* looks at the contract table found it loaded; when all 20 fail it returns
\* False and the session is not connected.
C40_ConnectedOnlyIfLoaded ==
    /\ [](\A t \in Threads : pc[t] = "connect_ok" => ~WaitDone(loc[t].i))
    /\ [][\A t \in Threads :
            pc[t] = "wait" /\ WaitDone(loc[t].i) /\ pc'[t] # "wait"
               => pc'[t] = "connect_except"]_vars

\* C34: after any sequence of start() and stop() calls at most one thread
\* runs iterations of the polling loop: a thread begins an iteration only
\* while it is the thread start() made last, so a thread that outlived the
\* join of stop() ends when it comes to the top of the loop.
C34_OneLoopThread ==
    [][\A t \in LoopThreads :
          pc[t] = "loop_top" /\ pc'[t] \notin {"loop_top", "done"}
             => thread = {t}]_vars

-----------------------------------------------------------------------------
(***************************************************************************)
(* Claims about the notification wrappers, the catch-up at the start and   *)
(* the fetches that fail inside a scheduled run.                           *)
(***************************************************************************)
\* C31: a notification hook that raises leaves the job's status and
\* last-run date as the body set them, and keeps no other call from
\* running: the step changes nothing but the call it belongs to.
C31_HookFailureContained ==
    [][\A e \in Executors :
          task[e].pc = "hook" /\ task'[e].pc # "hook" /\ lastHook'[e].result = "raised"
             => /\ job_status' = job_status
                /\ last_run' = last_run
                /\ \A o \in Executors \ {e} : task'[o] = task[o]
                /\ registered' = registered /\ boot' = boot
                /\ task'[e] = IdleTask]_vars

\* A body returned, its hook raised, and the job is recorded as done today.
C31_Witness ==
    /\ lastHook["cron"] = [after |-> "returned", result |-> "raised"]
    /\ lastDone.by = "cron"
    /\ last_run = day
    /\ task["cron"] = IdleTask

C37_FailedFetchNotRecorded ==
    \A e \in Scheduled :
        job = "inst" /\ lastHook[e].after = "failed" /\ lastDone.by = e
           => lastDone.status # "success" /\ lastDone.last_run # day

\* C32: on a day the job has not run, start() starts the catch-up run on
\* its own thread exactly when the time of the start is at or after the
\* job's trigger time (18:05 institutional fetch, 18:15 AI review), and the
\* cron job is registered as at any other time.
C32_CatchUpIffPastTrigger ==
    boot = "started" =>
        /\ task["catchup"].pc = "called" <=> tod >= TriggerTime(job)
        /\ registered = "original"
        /\ task["cron"] = IdleTask

\* C33: generate(prompt) calls the provider at most 3 times and returns a
\* string: the text of the first attempt that succeeded, and no attempt is
\* made after it; or, when the third attempt failed too, the string that
\* says the analysis is unavailable, made of the last exception.  It never
\* ends another way.
C33_ThreeAttemptsThenString ==
    /\ Len(gen.log) <= 3
    /\ \A k \in 1..(Len(gen.log) - 1) : ~gen.log[k].ok
    /\ gen.pc = "done" =>
          /\ gen.log # <<>>
          /\ LET last == gen.log[Len(gen.log)]
             IN IF last.ok THEN gen.ret = Text(last)
                ELSE Len(gen.log) = 3 /\ gen.ret = Unavailable(last)

\* The third attempt failed after two failures, and the string was returned.
C33_Witness ==
    /\ gen.pc = "done" /\ Len(gen.log) = 3
    /\ gen.ret = [kind |-> "unavailable", val |-> "e2"]
    /\ gen.log[1].val = "e1"

\* C38: an exception of the alert evaluation or of the notifier in the hook
\* that follows the fetch leaves the session as it is: the loop does not go
\* into reconnect() (disconnect, then the backoff wait), the session stays
\* connected, and the cache keeps what the fetch of that iteration wrote.
C38_HookFailureKeepsSession ==
    [][pc[PollThread] = "hook" /\ pc'[PollThread] \notin {"hook", "count"}
          => /\ pc'[PollThread] # "disconnect"
             /\ is_connected' = is_connected
             /\ cache' = cache /\ heap' = heap]_vars

\* C39: a call of fetch_snapshots that returns the empty map (not
\* connected, no symbol resolved, or an exception anywhere in the call)
\* leaves the cache as it was: the same symbols with the same snapshots.
C39_EmptyReturnKeepsCache ==
    [][lastCacheOp' = "fetch" /\ DOMAIN lastFetch'.ret = {}
          => cache' = cache /\ CacheView' = CacheView]_vars

\* C35: the events a call of check_alerts goes on to queue and return are
\* for alerts its own store write moved from active to triggered: at the
\* commit, each of them is a row of the store that is active before it and
\* triggered after it.  An alert deleted since the call read it as active
\* has no event.
C35_EventOnlyIfMoved ==
    [][\A c \in Checkers :
          chk[c].pc = "commit" /\ chk'[c].pc = "push"
             => \A k \in 1..Len(chk'[c].newly) :
                   LET id == chk'[c].newly[k].id
                   IN /\ id \in DOMAIN alerts /\ alerts[id].is_triggered = 0
                      /\ id \in DOMAIN alerts' /\ alerts'[id].is_triggered = 1]_vars

=============================================================================
